---- MODULE Spec2Model ----
(***************************************************************************)
(* Time-classification engine of smart-point: the overtime classifier and  *)
(* weekly aggregator (overtimeEngine / timeMath) and the holerith          *)
(* projection allocator (holerithProjection).                              *)
(*                                                                         *)
(* Representation of values:                                               *)
(*   - a clock string is a record [k, h, m]: k = "empty" for '',           *)
(*     "hhmm" for a string matching /^\d{1,2}:\d{2}$/, "loose" for a       *)
(*     string with a colon and numeric parts that fails the pattern        *)
(*     (e.g. '8:5'), "junk" for anything else;                             *)
(*   - an ISO date string 'YYYY-MM-DD' is the tuple <<y, m, d>>, '' is     *)
(*     <<>>; a tuple may name a day that does not exist (2026-04-31);      *)
(*   - settings.weeklyLimit (hours) is held in units of 1/240 h, so that   *)
(*     weeklyLimit * 60 is a number of quarter minutes;                    *)
(*   - settings.dailyJourney (hours) is held in units of 1/120 h;         *)
(*   - a half minute (the classifier's x.5 clock positions) is one unit    *)
(*     of a doubled clock, 0 .. 2879.                                      *)
(***************************************************************************)
EXTENDS Integers, Sequences, FiniteSets, TLC

VARIABLES
    settings,        \* the Settings object of the call
    entries,         \* the TimeEntry[] handed to calculateOvertime
    pc,              \* position of the caller / of runOvertimeEngine
    effectiveEntries,\* runOvertimeEngine: result of normalizeOvernightEntries
    wi,              \* index into sortedWeekKeys (forEach position)
    weekEntries,     \* the current week's entries, sorted by date
    ei,              \* index into weekEntries (forEach position)
    ctx,             \* DayRuleContext of the day being processed
    processed,       \* classifyAndAccumulateRule: loop counter
    week,            \* WeekContext of the current week
    grand,           \* MutableTotals of the whole run
    weeklySummaries, \* WeeklySummary[] pushed so far
    grandTotalValue, \* runOvertimeEngine: running sum of the weeks' values
    dayLog,          \* history: one record per day fed to the rule chain
    firstCall,       \* caller: argument and result of an earlier call
    request,         \* caller: referenceMonth and payslip aggregates
    projected,       \* caller: result of buildProjectedCardFromHolerith
    fnArgs,          \* arguments of a call of one of the pure helpers
    fnValue          \* the value that call returned

engineVars == <<effectiveEntries, wi, weekEntries, ei, ctx, processed, week,
                grand, weeklySummaries, grandTotalValue, dayLog>>
callerVars == <<firstCall, request, projected, fnArgs, fnValue>>

vars == <<settings, entries, pc, engineVars, callerVars>>

(***************************************************************************)
(* Bounds of the model.                                                    *)
(***************************************************************************)
MaxEntries == 2

(***************************************************************************)
(* Program constants.                                                      *)
(***************************************************************************)
MinutesPerDay == 1440
NightEndMinute == 300
CompensationBonus == 60

Min(a, b) == IF a < b THEN a ELSE b
Max(a, b) == IF a > b THEN a ELSE b

RECURSIVE SumSeq(_)
SumSeq(s) == IF s = <<>> THEN 0 ELSE Head(s) + SumSeq(Tail(s))

(***************************************************************************)
(* Clock arithmetic (timeMath).                                            *)
(***************************************************************************)
EmptyClock == [k |-> "empty", h |-> 0, m |-> 0]
JunkClock == [k |-> "junk", h |-> 0, m |-> 0]
HHMM(h, m) == [k |-> "hhmm", h |-> h, m |-> m]
LooseClock(h, m) == [k |-> "loose", h |-> h, m |-> m]

\* JS: value || fallback, for a string value
OrDefault(value, fallback) == IF value.k = "empty" THEN fallback ELSE value

normalizeClock(value) == IF value.k = "hhmm" THEN value ELSE EmptyClock

timeToMinutes(time) ==
    IF time.k \in {"hhmm", "loose"} THEN time.h * 60 + time.m ELSE 0

diffMinutes(start, end) ==
    LET s == normalizeClock(start)
        e == normalizeClock(end)
        duration == timeToMinutes(e) - timeToMinutes(s)
        wrapped == IF duration < 0 THEN duration + 24 * 60 ELSE duration
    IN  IF s.k = "empty" \/ e.k = "empty" THEN 0 ELSE Max(0, wrapped)

periodsFromEntry(entry) ==
    << <<entry.entry1, entry.exit1>>,
       <<entry.entry2, entry.exit2>>,
       <<entry.entryExtra, entry.exitExtra>> >>

sumPeriodsMinutes(periods) ==
    SumSeq([i \in 1..Len(periods) |-> diffMinutes(periods[i][1], periods[i][2])])

sumEntryWorkedMinutes(entry) == sumPeriodsMinutes(periodsFromEntry(entry))

IsCompletePeriod(p) ==
    normalizeClock(p[1]).k # "empty" /\ normalizeClock(p[2]).k # "empty"

getLastExitMinutes(entry) ==
    LET periods == SelectSeq(periodsFromEntry(entry), IsCompletePeriod)
    IN  IF Len(periods) = 0 THEN 0
        ELSE timeToMinutes(periods[Len(periods)][2])

(***************************************************************************)
(* compDays: the raw string is a sequence of comma-separated tokens; a     *)
(* token is a finite number or not a number. '' / undefined is <<>>.       *)
(***************************************************************************)
Tok(v) == [fin |-> TRUE, v |-> v]
NaNTok == [fin |-> FALSE, v |-> 0]
DefaultCompDays == <<Tok(1), Tok(2), Tok(3), Tok(4)>>

IsFiniteTok(t) == t.fin

parseCompDays(compDaysRaw) ==
    LET raw == IF compDaysRaw = <<>> THEN DefaultCompDays ELSE compDaysRaw
        kept == SelectSeq(raw, IsFiniteTok)
    IN  [i \in 1..Len(kept) |-> kept[i].v]

Includes(seq, x) == \E i \in 1..Len(seq) : seq[i] = x

\* Math.round(x / 2) for an integer x (half-up, as Math.round)
RoundHalf(x) == (x + 1) \div 2

\* variant: the overtime card is not told apart
resolveDailyJourneyMinutes_NoCard(baseDailyJourneyHours, isOvertimeCardEntry, dayOfWeek, saturdayCompensation, compDaysRaw) ==
    LET journey == RoundHalf(baseDailyJourneyHours)
        compDays == parseCompDays(compDaysRaw)
    IN  IF ~saturdayCompensation THEN journey
        ELSE IF Includes(compDays, dayOfWeek) THEN journey + CompensationBonus
        ELSE IF dayOfWeek = 6 THEN 0
        ELSE journey

resolveDailyJourneyMinutes(baseDailyJourneyHours, isOvertimeCardEntry, dayOfWeek, saturdayCompensation, compDaysRaw) ==
    LET journey == RoundHalf(baseDailyJourneyHours)
        compDays == parseCompDays(compDaysRaw)
    IN  IF isOvertimeCardEntry THEN 0
        ELSE IF ~saturdayCompensation THEN journey
        ELSE IF Includes(compDays, dayOfWeek) THEN journey + CompensationBonus
        ELSE IF dayOfWeek = 6 THEN 0
        ELSE journey

(***************************************************************************)
(* Calendar (JS Date / date-fns parseISO, isValid, getDay).                *)
(***************************************************************************)
NoDate == <<>>

IsLeapYear(y) == (y % 4 = 0 /\ y % 100 # 0) \/ y % 400 = 0

DaysInMonth(y, m) ==
    IF m = 2 THEN (IF IsLeapYear(y) THEN 29 ELSE 28)
    ELSE IF m \in {4, 6, 9, 11} THEN 30 ELSE 31

isValid(date) ==
    /\ Len(date) = 3
    /\ date[2] \in 1..12
    /\ date[3] \in 1..DaysInMonth(date[1], date[2])

MonthOffset == <<0, 3, 2, 5, 0, 3, 5, 1, 4, 6, 2, 4>>

\* Date.prototype.getDay of a valid date: 0 = Sunday .. 6 = Saturday
getDay(date) ==
    LET y == IF date[2] < 3 THEN date[1] - 1 ELSE date[1]
    IN  (y + (y \div 4) - (y \div 100) + (y \div 400)
           + MonthOffset[date[2]] + date[3]) % 7

\* a.localeCompare(b) < 0 for two ISO date strings ('' sorts first)
DateBefore(a, b) ==
    IF Len(a) = 0 THEN Len(b) # 0
    ELSE IF Len(b) = 0 THEN FALSE
    ELSE \/ a[1] < b[1]
         \/ a[1] = b[1] /\ a[2] < b[2]
         \/ a[1] = b[1] /\ a[2] = b[2] /\ a[3] < b[3]

\* Stable sort (Array.prototype.sort) of the indices of seq by date
SortedIndices(seq) ==
    LET Rank(i) == Cardinality({j \in 1..Len(seq) :
                        \/ DateBefore(seq[j].date, seq[i].date)
                        \/ seq[j].date = seq[i].date /\ j < i}) + 1
    IN  [r \in 1..Len(seq) |-> CHOOSE i \in 1..Len(seq) : Rank(i) = r]

\* variant: the rows are left in the order they came in
SortByDate_Unsorted(seq) == seq

SortByDate(seq) ==
    LET idx == SortedIndices(seq) IN [r \in 1..Len(seq) |-> seq[idx[r]]]

(***************************************************************************)
(* normalizeOvernightEntries (timeMath): an exit punch split off onto the  *)
(* next row by the OCR is moved back onto the row that holds the entry.    *)
(***************************************************************************)
HasClock(value) == normalizeClock(value).k # "empty"

SplitOvernight(current, next, startKey, endKey) ==
    /\ HasClock(current[startKey]) /\ ~HasClock(current[endKey])
    /\ ~HasClock(next[startKey]) /\ HasClock(next[endKey])

TakeExit(current, next, startKey, endKey) ==
    IF SplitOvernight(current, next, startKey, endKey)
    THEN normalizeClock(next[endKey]) ELSE current[endKey]

GiveExit(current, next, startKey, endKey) ==
    IF SplitOvernight(current, next, startKey, endKey)
    THEN EmptyClock ELSE next[endKey]

RECURSIVE NormalizeFrom(_, _, _)
NormalizeFrom(cloned, ordered, i) ==
    IF i >= Len(ordered) THEN cloned
    ELSE LET c == ordered[i]
             n == ordered[i + 1]
             current == cloned[c]
             next == cloned[n]
             newCurrent ==
                 [current EXCEPT
                     !.exit1 = TakeExit(current, next, "entry1", "exit1"),
                     !.exit2 = TakeExit(current, next, "entry2", "exit2"),
                     !.exitExtra = TakeExit(current, next, "entryExtra", "exitExtra")]
             newNext ==
                 [next EXCEPT
                     !.exit1 = GiveExit(current, next, "entry1", "exit1"),
                     !.exit2 = GiveExit(current, next, "entry2", "exit2"),
                     !.exitExtra = GiveExit(current, next, "entryExtra", "exitExtra")]
         IN  NormalizeFrom([cloned EXCEPT ![c] = newCurrent, ![n] = newNext],
                           ordered, i + 1)

normalizeOvernightEntries(es) ==
    IF Len(es) = 0 THEN es ELSE NormalizeFrom(es, SortedIndices(es), 1)

(***************************************************************************)
(* Weekly aggregator (overtimeEngine): custom week key and grouping.       *)
(***************************************************************************)
\* Math.ceil(n / 7) for an integer n
CeilDiv7(n) == (n + 6) \div 7

\* the week key `${yyyy-MM}-W${weekIndex}` as <<year, month, weekIndex>>
customWeekKey(date) ==
    LET dayOfMonth == date[3]
        firstOfMonth == <<date[1], date[2], 1>>
        dayOfWeekFirstOfMonth == ((getDay(firstOfMonth) + 6) % 7) + 1
        daysUntilFirstSunday == 7 - (dayOfWeekFirstOfMonth % 7)
        weekIndex == IF dayOfMonth > daysUntilFirstSunday
                     THEN 1 + CeilDiv7(dayOfMonth - daysUntilFirstSunday)
                     ELSE 1
    IN  <<date[1], date[2], weekIndex>>

\* holerithProjection's own copy of the week key
getCustomWeekKey(date) ==
    LET dayOfMonth == date[3]
        firstOfMonth == <<date[1], date[2], 1>>
        dayOfWeekFirstOfMonth == ((getDay(firstOfMonth) + 6) % 7) + 1
        daysUntilFirstSunday == 7 - (dayOfWeekFirstOfMonth % 7)
        weekIndex == IF dayOfMonth > daysUntilFirstSunday
                     THEN 1 + CeilDiv7(dayOfMonth - daysUntilFirstSunday)
                     ELSE 1
    IN  <<date[1], date[2], weekIndex>>

HasValidDate(entry) == isValid(entry.date)

groupByCustomWeek(es) ==
    LET dated == SelectSeq(es, HasValidDate)
        keys == {customWeekKey(dated[i].date) : i \in 1..Len(dated)}
    IN  [key \in keys |->
            SelectSeq(dated, LAMBDA e : customWeekKey(e.date) = key)]

\* a.localeCompare(b, undefined, {numeric: true}) < 0 for two week keys
KeyBefore(a, b) ==
    \/ a[1] < b[1]
    \/ a[1] = b[1] /\ a[2] < b[2]
    \/ a[1] = b[1] /\ a[2] = b[2] /\ a[3] < b[3]

SortKeys(keys) ==
    [r \in 1..Cardinality(keys) |->
        CHOOSE key \in keys :
            Cardinality({other \in keys : KeyBefore(other, key)}) = r - 1]

groupedWeeks == groupByCustomWeek(effectiveEntries)
sortedWeekKeys == SortKeys(DOMAIN groupedWeeks)

(***************************************************************************)
(* Money (payroll.ts, overtimeEngine.ts).  A JS number that holds money is *)
(* a decimal of 8 places, the record [r, f] standing for r + f / 10^8 with *)
(* 0 <= f < 10^8 (so -0.5 is [r |-> -1, f |-> 50000000]); the arithmetic   *)
(* is exact, and the settlements drawn are those whose quotients are       *)
(* decimals of 8 places.  Hours of overtime are held in units of 1/60 h,   *)
(* percentages and rates as whole numbers of percent and of per mille.     *)
(***************************************************************************)
Money(reais, centavos) == [r |-> reais, f |-> centavos * 1000000]

DecZero == Money(0, 0)

DecNorm(r, f) == [r |-> r + (f \div 100000000), f |-> f % 100000000]

DecAdd(a, b) == DecNorm(a.r + b.r, a.f + b.f)

DecSub(a, b) == DecNorm(a.r - b.r, a.f - b.f)

DecNeg(a) == DecNorm(-a.r, -a.f)

DecLess(a, b) == a.r < b.r \/ (a.r = b.r /\ a.f < b.f)

DecLeq(a, b) == a = b \/ DecLess(a, b)

DecMin(a, b) == IF DecLess(a, b) THEN a ELSE b

DecMax(a, b) == IF DecLess(a, b) THEN b ELSE a

\* a * k for a whole k >= 0, by limbs of four digits
DecMulInt(a, k) ==
    LET c0 == (a.f % 10000) * k
        c1 == (a.f \div 10000) * k + (c0 \div 10000)
    IN  [r |-> a.r * k + (c1 \div 10000), f |-> (c1 % 10000) * 10000 + (c0 % 10000)]

\* a / n for a whole n > 0 by long division: the quotient cut at 8 places and
\* whether nothing was cut
DecQuotient(a, n) ==
    LET t1 == (a.r % n) * 10000 + (a.f \div 10000)
        t0 == (t1 % n) * 10000 + (a.f % 10000)
    IN  [q |-> [r |-> a.r \div n, f |-> (t1 \div n) * 10000 + (t0 \div n)],
         exact |-> t0 % n = 0]

DecDiv(a, n) == DecQuotient(a, n).q

DecDivides(a, n) == DecQuotient(a, n).exact

\* a * perMille / 1000
DecRate(a, perMille) == DecDiv(DecMulInt(a, perMille), 1000)

\* Number(x.toFixed(2)): two places, a half goes away from zero
RoundCents(a) == DecNorm(a.r, ((a.f + 500000) \div 1000000) * 1000000)

toFixed2(a) == IF a.r < 0 THEN DecNeg(RoundCents(DecNeg(a))) ELSE RoundCents(a)

IsCents(a) == a.f % 1000000 = 0

(***************************************************************************)
(* Per-day rule chain (overtimeEngine).                                    *)
(***************************************************************************)
DefaultNightCutoff == HHMM(22, 0)

nightCutoffMinutes == timeToMinutes(OrDefault(settings.nightCutoff, DefaultNightCutoff))

\* buildRates: the hourly rate and the rate of each tier
buildRates(cfg) ==
    LET hourlyRate == DecDiv(cfg.baseSalary, IF cfg.monthlyHours = 0 THEN 1 ELSE cfg.monthlyHours)
        Rate(percent) == DecDiv(DecMulInt(hourlyRate, 100 + percent), 100)
    IN  [hourlyRate |-> hourlyRate,
         rate50 |-> Rate(cfg.percent50), rate100 |-> Rate(cfg.percent100),
         rate75 |-> Rate(cfg.percent50 + cfg.percentNight),
         rate125 |-> Rate(cfg.percent100 + cfg.percentNight)]

\* Number((m50 / 60 * rate50 + ... + m125 / 60 * rate125).toFixed(2)); cutting the
\* quotient at 8 places never moves it across a half cent
MinutesValue(totals, rates) ==
    toFixed2(DecDiv(DecAdd(DecAdd(DecMulInt(rates.rate50, totals.total50Minutes),
                                  DecMulInt(rates.rate75, totals.total75Minutes)),
                           DecAdd(DecMulInt(rates.rate100, totals.total100Minutes),
                                  DecMulInt(rates.rate125, totals.total125Minutes))), 60))

ZeroTotals ==
    [total50Minutes |-> 0, total75Minutes |-> 0, total100Minutes |-> 0,
     total125Minutes |-> 0, totalBancoHoras |-> 0]

ZeroWeek ==
    [total50Minutes |-> 0, total75Minutes |-> 0, total100Minutes |-> 0,
     total125Minutes |-> 0, totalBancoHoras |-> 0, weekOvertimeAccumulator |-> 0]

NoCtx ==
    [date |-> NoDate, isSunday |-> FALSE, isOvertimeCardEntry |-> FALSE,
     dailyJourneyMinutesEntry |-> 0, dailyTotalMinutes |-> 0,
     dayOvertimeMinutes |-> 0, dayEndMinutes |-> 0]

\* resolveJourneyRule
resolveJourney(entry) ==
    resolveDailyJourneyMinutes(
        settings.dailyJourney,
        entry.isOvertimeCard,
        IF isValid(entry.date) THEN getDay(entry.date) ELSE 0,
        settings.saturdayCompensation,
        settings.compDays)

\* variant: a Sunday is measured against the journey like any other day
computeDayOvertime_NoSunday(sunday, dailyTotalMinutes, dailyJourneyMinutesEntry) ==
    IF dailyJourneyMinutesEntry # 0
    THEN Max(0, dailyTotalMinutes - dailyJourneyMinutesEntry)
    ELSE IF dailyTotalMinutes > 0 THEN dailyTotalMinutes
    ELSE 0

\* computeDayOvertimeRule
computeDayOvertime(sunday, dailyTotalMinutes, dailyJourneyMinutesEntry) ==
    IF sunday THEN dailyTotalMinutes
    ELSE IF dailyJourneyMinutesEntry # 0
         THEN Max(0, dailyTotalMinutes - dailyJourneyMinutesEntry)
    ELSE IF dailyTotalMinutes > 0 THEN Max(0, dailyTotalMinutes - 0)
    ELSE 0

\* the DayRuleContext runOvertimeEngine builds, after the first three rules
DayContext(entry) ==
    LET sunday == IF isValid(entry.date) THEN getDay(entry.date) = 0 ELSE FALSE
        journey == resolveJourney(entry)
        worked == sumEntryWorkedMinutes(entry)
    IN  [date |-> entry.date,
         isSunday |-> sunday,
         isOvertimeCardEntry |-> entry.isOvertimeCard,
         dailyJourneyMinutesEntry |-> journey,
         dailyTotalMinutes |-> worked,
         dayOvertimeMinutes |-> computeDayOvertime(sunday, worked, journey),
         dayEndMinutes |-> getLastExitMinutes(entry)]

\* variant: the minute is taken half a minute after, not before, the position
MinutePosition_After(dayEndMinutes, done) ==
    (2 * dayEndMinutes - (2 * done - 1)) % (2 * MinutesPerDay)

\* clock position of the minute taken, on the doubled clock:
\* dayEndMinutes - (processed + 0.5), wrapped into [0, 24 * 60)
MinutePosition(dayEndMinutes, done) ==
    (2 * dayEndMinutes - (2 * done + 1)) % (2 * MinutesPerDay)

IsNightPosition(position, cutoffMinutes) ==
    position >= 2 * cutoffMinutes \/ position < 2 * NightEndMinute

\* variant: the minute that reaches the cap is still within it
IsWithinLimit_Inclusive(weeklyLimit, accumulator) ==
    IF weeklyLimit > 0 THEN 4 * accumulator <= weeklyLimit ELSE TRUE

\* limitMinutes > 0 ? weekOvertimeAccumulator < limitMinutes : true
IsWithinLimit(weeklyLimit, accumulator) ==
    IF weeklyLimit > 0 THEN 4 * accumulator < weeklyLimit ELSE TRUE

\* variant: the loop runs once more than there are overtime minutes
TotalOvertimeToProcess_OneMore(dayOvertimeMinutes) == dayOvertimeMinutes + 1

\* Math.round(ctx.dayOvertimeMinutes), a whole number of minutes already
TotalOvertimeToProcess(dayOvertimeMinutes) == dayOvertimeMinutes

\* variant: the Sunday excess of the normal card is paid, not banked
ClassifyBranch_SundayPaid(dayOvertimeMinutes, isOvertimeCardEntry, sunday) ==
    IF dayOvertimeMinutes <= 0 THEN "none"
    ELSE IF ~isOvertimeCardEntry /\ ~sunday THEN "bank"
    ELSE "classify"

\* classifyAndAccumulateRule before its loop: nothing to do, banked hours of
\* the normal card, or minute-by-minute classification of the overtime card
ClassifyBranch(dayOvertimeMinutes, isOvertimeCardEntry, sunday) ==
    IF dayOvertimeMinutes <= 0 THEN "none"
    ELSE IF ~isOvertimeCardEntry THEN "bank"
    ELSE "classify"

\* variant: Sundays are classified like any other day
MinuteBucket_NoSunday(sunday, night, withinLimit) ==
    IF withinLimit THEN (IF night THEN "total75Minutes" ELSE "total50Minutes")
    ELSE (IF night THEN "total125Minutes" ELSE "total100Minutes")

\* the bucket one iteration of the loop adds its minute to
MinuteBucket(sunday, night, withinLimit) ==
    IF sunday THEN (IF night THEN "total125Minutes" ELSE "total100Minutes")
    ELSE IF withinLimit THEN (IF night THEN "total75Minutes" ELSE "total50Minutes")
    ELSE (IF night THEN "total125Minutes" ELSE "total100Minutes")

(***************************************************************************)
(* Projection allocator (holerithProjection): a 31-line overtime card      *)
(* whose punches are meant to classify into the payslip's tier minutes.    *)
(***************************************************************************)
DefaultCycleStartDay == 15
CardLines == 31

\* variant: the line of the cutoff day itself already belongs to the previous month
resolveWorkDateByCompetenciaDay_FromCutoff(day, referenceMonth, referenceYear, cycleStartDay) ==
    IF cycleStartDay > 1 /\ day >= cycleStartDay
    THEN IF referenceMonth = 1 THEN <<referenceYear - 1, 12, day>>
         ELSE <<referenceYear, referenceMonth - 1, day>>
    ELSE <<referenceYear, referenceMonth, day>>

resolveWorkDateByCompetenciaDay(day, referenceMonth, referenceYear, cycleStartDay) ==
    IF cycleStartDay > 1 /\ day > cycleStartDay
    THEN IF referenceMonth = 1 THEN <<referenceYear - 1, 12, day>>
         ELSE <<referenceYear, referenceMonth - 1, day>>
    ELSE <<referenceYear, referenceMonth, day>>

\* the server's copy of the date of a card line
getCorrectDate(d, refMonth, refYear, cycle) ==
    LET rolled == cycle > 1 /\ d > cycle
        m == IF rolled THEN (IF refMonth - 1 = 0 THEN 12 ELSE refMonth - 1) ELSE refMonth
        y == IF rolled /\ refMonth - 1 = 0 THEN refYear - 1 ELSE refYear
    IN  <<y, m, d>>

\* `${hh}:${mm}` of a number of minutes: hours are not wrapped
minutesToTime(minutes) == [h |-> minutes \div 60, m |-> minutes % 60]

blankRow(day, date) ==
    [date |-> date, day |-> day, entry1 |-> EmptyClock, exit1 |-> EmptyClock,
     entry2 |-> EmptyClock, exit2 |-> EmptyClock, entryExtra |-> EmptyClock,
     exitExtra |-> EmptyClock, totalHours |-> minutesToTime(0), isDPAnnotation |-> "unset"]

formatClock(totalMinutes) ==
    LET value == ((totalMinutes % (24 * 60)) + (24 * 60)) % (24 * 60)
    IN  HHMM(value \div 60, value % 60)

\* holerithProjection's own parseCompDays keeps the integers 0..6 only
parseCompDaysInRange(compDaysRaw) ==
    LET raw == IF compDaysRaw = <<>> THEN DefaultCompDays ELSE compDaysRaw
        kept == SelectSeq(raw, LAMBDA tok : tok.fin /\ tok.v \in 0..6)
    IN  [i \in 1..Len(kept) |-> kept[i].v]

isWeekday(dayOfWeek) == dayOfWeek >= 1 /\ dayOfWeek <= 5

finalizeTotals(rows) ==
    [i \in 1..Len(rows) |->
        [rows[i] EXCEPT !.totalHours = minutesToTime(sumEntryWorkedMinutes(rows[i]))]]

isNightMinute(minuteOfDay, cutoffMinutes) ==
    minuteOfDay >= cutoffMinutes \/ minuteOfDay < 5 * 60

classifyMinuteRateType(dayOfWeek, minuteOfDay, weekAccumulator, weeklyLimitMinutes, cutoffMinutes) ==
    LET night == isNightMinute(minuteOfDay, cutoffMinutes)
        withinLimit == IF weeklyLimitMinutes > 0
                       THEN weekAccumulator < weeklyLimitMinutes ELSE TRUE
    IN  IF dayOfWeek = 0 THEN (IF night THEN "125" ELSE "100")
        ELSE IF withinLimit THEN (IF night THEN "75" ELSE "50")
        ELSE (IF night THEN "125" ELSE "100")

\* variant: every minute opens a segment of its own
addMinuteToSlot_NewSegment(slot, minute) ==
    [slot EXCEPT !.segments = Append(@, [start |-> minute, end |-> minute + 1])]

addMinuteToSlot(slot, minute) ==
    LET n == Len(slot.segments)
    IN  IF n > 0 /\ slot.segments[n].end = minute
        THEN [slot EXCEPT !.segments[n].end = minute + 1]
        ELSE [slot EXCEPT !.segments = Append(@, [start |-> minute, end |-> minute + 1])]

SlotPlan(start, end) == [start |-> start, end |-> end, cursor |-> start, segments |-> <<>>]

\* the two candidate windows of one day
DaySlots(dayOfWeek, cfg) ==
    LET workStartMin == timeToMinutes(OrDefault(cfg.workStart, HHMM(12, 0)))
        workEndMin == timeToMinutes(OrDefault(cfg.workEnd, HHMM(21, 0)))
        saturdayStartMin == timeToMinutes(OrDefault(cfg.saturdayWorkStart, HHMM(12, 0)))
        saturdayEndMin == timeToMinutes(OrDefault(cfg.saturdayWorkEnd, HHMM(16, 0)))
        nightStartMin == Max(0, timeToMinutes(OrDefault(cfg.nightCutoff, HHMM(22, 0))))
        shortSaturday == dayOfWeek = 6 /\ ~cfg.saturdayCompensation
        baseStart == IF shortSaturday THEN saturdayStartMin ELSE workStartMin
        baseEnd == IF shortSaturday THEN saturdayEndMin ELSE workEndMin
        sundayNightStart == Max(22 * 60, nightStartMin)
    IN  IF dayOfWeek = 0
        THEN << SlotPlan(8 * 60, 18 * 60), SlotPlan(sundayNightStart, sundayNightStart + 240) >>
        ELSE << SlotPlan(Max(0, baseStart - 120), baseStart), SlotPlan(baseEnd, baseEnd + 360) >>

\* one plan per row with a valid date
buildDayPlans(rows, cfg) ==
    LET valid == SelectSeq(rows, HasValidDate)
        plans == [i \in 1..Len(valid) |->
                    [row |-> valid[i], date |-> valid[i].date,
                     dayOfWeek |-> getDay(valid[i].date),
                     weekKey |-> getCustomWeekKey(valid[i].date),
                     slots |-> DaySlots(getDay(valid[i].date), cfg)]]
    IN  plans

\* weekAccumulator.get(weekKey) || 0
AccOf(weekAccumulator, weekKey) ==
    IF weekKey \in DOMAIN weekAccumulator THEN weekAccumulator[weekKey] ELSE 0

AccSet(weekAccumulator, weekKey, value) ==
    [k \in DOMAIN weekAccumulator \cup {weekKey} |->
        IF k = weekKey THEN value ELSE weekAccumulator[k]]

\* whether slot s of day d takes a minute of the target type as things stand:
\* the day is not passed over, the slot is not used up and its next minute is
\* predicted to be of the target type
CanTake(params, dayPlans, weekAccumulator, d, s) ==
    LET dayPlan == dayPlans[d]
        slot == dayPlan.slots[s]
        minuteOfDay == ((slot.cursor % (24 * 60)) + (24 * 60)) % (24 * 60)
    IN  /\ ~(params.sundayOnly /\ dayPlan.dayOfWeek # 0)
        /\ ~(params.nonSundayOnly /\ dayPlan.dayOfWeek = 0)
        /\ slot.cursor < slot.end
        /\ classifyMinuteRateType(
               dayPlan.dayOfWeek, minuteOfDay, AccOf(weekAccumulator, dayPlan.weekKey),
               params.weeklyLimitMinutes, params.nightCutoffMinutes) = params.targetType

\* the slots, from slot at.s of day at.d on, that take a minute as things stand
OpenSlots(params, dayPlans, weekAccumulator, at) ==
    { pos \in UNION { { <<d, s>> : s \in 1..Len(dayPlans[d].slots) } :
                      d \in at.d..Len(dayPlans) } :
        /\ pos[1] > at.d \/ pos[2] >= at.s
        /\ CanTake(params, dayPlans, weekAccumulator, pos[1], pos[2]) }

\* the first of a set of slots, in the order of the loops
FirstSlot(open) ==
    CHOOSE pos \in open : \A other \in open :
        \/ pos[1] < other[1]
        \/ pos[1] = other[1] /\ pos[2] <= other[2]

\* the loops of allocateTypeMinutes from day d, slot s on; the plans and the
\* week accumulator are updated in place by the code.  The loops pass over the
\* slots that take no minute without changing anything, so the next minute goes
\* to the first slot, from (d, s) on, that takes one.
RECURSIVE AllocateFrom(_, _, _, _, _)
RECURSIVE AllocateAt(_, _, _, _, _)
RECURSIVE AllocateAmong(_, _, _, _, _)
AllocateAt(params, dayPlans, weekAccumulator, remaining, next) ==
    LET dayPlan == dayPlans[next[1]]
        slot == dayPlan.slots[next[2]]
        currentWeekAcc == AccOf(weekAccumulator, dayPlan.weekKey)
    IN  AllocateFrom(
            params,
            [dayPlans EXCEPT ![next[1]].slots[next[2]] =
                [addMinuteToSlot(slot, slot.cursor) EXCEPT !.cursor = slot.cursor + 1]],
            IF dayPlan.dayOfWeek # 0
            THEN AccSet(weekAccumulator, dayPlan.weekKey, currentWeekAcc + 1)
            ELSE weekAccumulator,
            remaining - 1, [d |-> next[1], s |-> next[2]])

AllocateAmong(params, dayPlans, weekAccumulator, remaining, open) ==
    IF remaining <= 0 \/ open = {}
    THEN [dayPlans |-> dayPlans, weekAccumulator |-> weekAccumulator, remaining |-> remaining]
    ELSE AllocateAt(params, dayPlans, weekAccumulator, remaining, FirstSlot(open))

AllocateFrom(params, dayPlans, weekAccumulator, remaining, at) ==
    AllocateAmong(params, dayPlans, weekAccumulator, remaining,
                  OpenSlots(params, dayPlans, weekAccumulator, at))

allocateTypeMinutes(params) ==
    LET target == Max(0, params.targetMinutes)
        end == AllocateFrom(params, params.dayPlans, params.weekAccumulator, target,
                            [d |-> 1, s |-> 1])
    IN  [dayPlans |-> end.dayPlans, weekAccumulator |-> end.weekAccumulator,
         applied |-> Max(0, target - end.remaining)]

\* Array.prototype.sort by segment start (stable)
SortByStart(segments) ==
    LET Rank(i) == Cardinality({j \in 1..Len(segments) :
                        \/ segments[j].start < segments[i].start
                        \/ segments[j].start = segments[i].start /\ j < i}) + 1
    IN  [r \in 1..Len(segments) |->
            segments[CHOOSE i \in 1..Len(segments) : Rank(i) = r]]

RECURSIVE Compact(_, _)
Compact(compacted, rest) ==
    IF rest = <<>> THEN compacted
    ELSE LET segment == Head(rest)
             n == Len(compacted)
         IN  IF n > 0 /\ compacted[n].end >= segment.start
             THEN Compact([compacted EXCEPT ![n].end = Max(@, segment.end)], Tail(rest))
             ELSE Compact(Append(compacted, segment), Tail(rest))

CompactedSegments(dayPlan) ==
    LET merged == SortByStart(dayPlan.slots[1].segments \o dayPlan.slots[2].segments)
        compacted == Compact(<<>>, merged)
    IN  IF Len(compacted) > 3
        THEN << compacted[1], compacted[2],
                [start |-> compacted[3].start, end |-> compacted[Len(compacted)].end] >>
        ELSE compacted

ExcessWarnings(dayPlans) ==
    LET over == SelectSeq(dayPlans, LAMBDA dayPlan :
                    Len(Compact(<<>>, SortByStart(dayPlan.slots[1].segments
                                                  \o dayPlan.slots[2].segments))) > 3)
    IN  [i \in 1..Len(over) |-> [kind |-> "excess", day |-> over[i].row.day]]

\* the punches applySegmentsToRows writes into the row of one plan
RowWithSegments(dayPlan) ==
    LET compacted == CompactedSegments(dayPlan)
        Start(i, old) == IF i <= Len(compacted) THEN formatClock(compacted[i].start) ELSE old
        End(i, old) == IF i <= Len(compacted) THEN formatClock(compacted[i].end) ELSE old
    IN  [dayPlan.row EXCEPT
            !.entry1 = Start(1, @), !.exit1 = End(1, @),
            !.entry2 = Start(2, @), !.exit2 = End(2, @),
            !.entryExtra = Start(3, @), !.exitExtra = End(3, @)]

\* the rows after applySegmentsToRows: the plans hold references to the rows
applySegmentsToRows(rows, dayPlans) ==
    [i \in 1..Len(rows) |->
        IF \E d \in 1..Len(dayPlans) : dayPlans[d].row.day = rows[i].day
        THEN RowWithSegments(dayPlans[CHOOSE d \in 1..Len(dayPlans) :
                                          dayPlans[d].row.day = rows[i].day])
        ELSE rows[i]]

\* the line of the normal card for one day of the cycle
NormalRow(day, date, cfg) ==
    LET dayOfWeek == IF isValid(date) THEN getDay(date) ELSE -1
        compDays == parseCompDaysInRange(cfg.compDays)
        workStartMin == timeToMinutes(OrDefault(cfg.workStart, HHMM(12, 0)))
        lunchStartMin == timeToMinutes(OrDefault(cfg.lunchStart, HHMM(17, 0)))
        lunchEndMin == timeToMinutes(OrDefault(cfg.lunchEnd, HHMM(18, 0)))
        workEndMin == timeToMinutes(OrDefault(cfg.workEnd, HHMM(21, 0)))
        saturdayStartMin == timeToMinutes(OrDefault(cfg.saturdayWorkStart, HHMM(12, 0)))
        saturdayEndMin == timeToMinutes(OrDefault(cfg.saturdayWorkEnd, HHMM(16, 0)))
        adjustedWorkEnd == IF cfg.saturdayCompensation /\ Includes(compDays, dayOfWeek)
                           THEN workEndMin + 60 ELSE workEndMin
        normal == blankRow(day, date)
    IN  IF isWeekday(dayOfWeek)
        THEN [normal EXCEPT !.entry1 = formatClock(workStartMin),
                            !.exit1 = formatClock(lunchStartMin),
                            !.entry2 = formatClock(lunchEndMin),
                            !.exit2 = formatClock(adjustedWorkEnd)]
        ELSE IF dayOfWeek = 6 /\ ~cfg.saturdayCompensation
        THEN [normal EXCEPT !.entry1 = formatClock(saturdayStartMin),
                            !.exit1 = formatClock(saturdayEndMin)]
        ELSE normal

IsAtrasoCandidate(row) ==
    /\ isValid(row.date)
    /\ isWeekday(getDay(row.date))
    /\ row.entry2.k # "empty" /\ row.exit2.k # "empty"

\* variant: a row gives up its whole afternoon
AtrasoCut_NoCap(available, atrasoRemaining) == Min(available, atrasoRemaining)

\* Math.min(60, available, atrasoRemaining)
AtrasoCut(available, atrasoRemaining) == Min(Min(60, available), atrasoRemaining)

\* the lateness loop over the candidate rows, from row i on
RECURSIVE ApplyAtraso(_, _, _, _)
ApplyAtraso(rows, i, atrasoRemaining, atrasoMinutesApplied) ==
    IF i > Len(rows)
    THEN [rows |-> rows, atrasoRemaining |-> atrasoRemaining,
          atrasoMinutesApplied |-> atrasoMinutesApplied]
    ELSE LET row == rows[i]
             start == timeToMinutes(row.entry2)
             end == timeToMinutes(row.exit2)
             available == Max(0, end - start)
             cut == AtrasoCut(available, atrasoRemaining)
         IN  IF ~IsAtrasoCandidate(row) \/ atrasoRemaining <= 0 \/ available <= 0
             THEN ApplyAtraso(rows, i + 1, atrasoRemaining, atrasoMinutesApplied)
             ELSE ApplyAtraso(
                      [rows EXCEPT ![i] = [row EXCEPT !.exit2 = formatClock(end - cut),
                                                      !.isDPAnnotation = "false"]],
                      i + 1, atrasoRemaining - cut, atrasoMinutesApplied + cut)

\* variant: a shortfall of a single minute goes unreported
MissingWarning_AboveOne(kind, missing) ==
    IF missing > 1 THEN << [kind |-> kind, minutes |-> minutesToTime(missing)] >> ELSE <<>>

MissingWarning(kind, missing) ==
    IF missing > 0 THEN << [kind |-> kind, minutes |-> minutesToTime(missing)] >> ELSE <<>>

\* the six calls of allocateTypeMinutes, in the order the code makes them
AllocationPhases ==
    << [targetType |-> "125", sundayOnly |-> TRUE],
       [targetType |-> "100", sundayOnly |-> TRUE],
       [targetType |-> "75", sundayOnly |-> FALSE],
       [targetType |-> "50", sundayOnly |-> FALSE],
       [targetType |-> "125", sundayOnly |-> FALSE],
       [targetType |-> "100", sundayOnly |-> FALSE] >>

\* variant: the last two calls ask for the whole of the tier again
PhaseTargetMinutes_Whole(phase, parsed, applied) ==
    CASE phase \in {1, 5} -> parsed.he125Minutes
      [] phase \in {2, 6} -> parsed.he100Minutes
      [] phase = 3 -> parsed.he75Minutes
      [] phase = 4 -> parsed.he50Minutes

\* targetMinutes of each call; applied holds what the earlier calls returned
PhaseTargetMinutes(phase, parsed, applied) ==
    CASE phase = 1 -> parsed.he125Minutes
      [] phase = 2 -> parsed.he100Minutes
      [] phase = 3 -> parsed.he75Minutes
      [] phase = 4 -> parsed.he50Minutes
      [] phase = 5 -> Max(0, parsed.he125Minutes - applied[1])
      [] phase = 6 -> Max(0, parsed.he100Minutes - applied[2])

\* the plans in date order and the empty week accumulator, before the first call
AllocationStart(overtimeRows, cfg) ==
    [phase |-> 1, dayPlans |-> SortByDate(buildDayPlans(overtimeRows, cfg)),
     weekAccumulator |-> <<>>, applied |-> <<>>]

PhaseParams(cfg, parsed, st) ==
    [dayPlans |-> st.dayPlans, targetType |-> AllocationPhases[st.phase].targetType,
     targetMinutes |-> PhaseTargetMinutes(st.phase, parsed, st.applied),
     weekAccumulator |-> st.weekAccumulator,
     weeklyLimitMinutes |-> Max(0, (cfg.weeklyLimit + 2) \div 4),
     nightCutoffMinutes |-> Max(0, timeToMinutes(OrDefault(cfg.nightCutoff, HHMM(22, 0)))),
     sundayOnly |-> AllocationPhases[st.phase].sundayOnly,
     nonSundayOnly |-> ~AllocationPhases[st.phase].sundayOnly]

AfterPhase(st, result) ==
    [phase |-> st.phase + 1, dayPlans |-> result.dayPlans,
     weekAccumulator |-> result.weekAccumulator,
     applied |-> Append(st.applied, result.applied)]

\* one call of allocateTypeMinutes: the plans and the accumulator are shared by
\* the six calls
RunPhase(cfg, parsed, st) == AfterPhase(st, allocateTypeMinutes(PhaseParams(cfg, parsed, st)))

RECURSIVE RunPhases(_, _, _)
RunPhases(cfg, parsed, st) ==
    IF st.phase > Len(AllocationPhases) THEN st
    ELSE RunPhases(cfg, parsed, RunPhase(cfg, parsed, st))

\* the warnings, in the order they are pushed
ProjectionWarnings(parsed, atraso, allocation) ==
    (IF atraso.atrasoRemaining > 0
     THEN << [kind |-> "atraso", minutes |-> minutesToTime(atraso.atrasoRemaining)] >>
     ELSE <<>>)
    \o MissingWarning("missing50", Max(0, parsed.he50Minutes - allocation.applied[4]))
    \o MissingWarning("missing75", Max(0, parsed.he75Minutes - allocation.applied[3]))
    \o MissingWarning("missing100",
                      Max(0, parsed.he100Minutes - (allocation.applied[2] + allocation.applied[6])))
    \o MissingWarning("missing125",
                      Max(0, parsed.he125Minutes - (allocation.applied[1] + allocation.applied[5])))
    \o ExcessWarnings(allocation.dayPlans)

ProjectedCard(parsed, atraso, overtimeRows, allocation) ==
    [made |-> TRUE,
     hours |-> finalizeTotals(atraso.rows),
     he |-> finalizeTotals(applySegmentsToRows(overtimeRows, allocation.dayPlans)),
     summary |-> [atrasoMinutesApplied |-> atraso.atrasoMinutesApplied,
                  he50MinutesApplied |-> allocation.applied[4],
                  he75MinutesApplied |-> allocation.applied[3],
                  he100MinutesApplied |-> allocation.applied[2] + allocation.applied[6],
                  he125MinutesApplied |-> allocation.applied[1] + allocation.applied[5]],
     warnings |-> ProjectionWarnings(parsed, atraso, allocation)]

\* the date of each card line of the cycle
CycleDate(day, referenceMonth, cfg) ==
    resolveWorkDateByCompetenciaDay(
        day, referenceMonth[2], referenceMonth[1],
        IF cfg.cycleStartDay = 0 THEN DefaultCycleStartDay ELSE cfg.cycleStartDay)

OvertimeRows(referenceMonth, cfg) ==
    [day \in 1..CardLines |-> blankRow(day, CycleDate(day, referenceMonth, cfg))]

NormalRows(referenceMonth, cfg) ==
    [day \in 1..CardLines |-> NormalRow(day, CycleDate(day, referenceMonth, cfg), cfg)]

ProjectFrom(cfg, parsed, normalRows, overtimeRows) ==
    ProjectedCard(parsed, ApplyAtraso(normalRows, 1, Max(0, parsed.atrasoMinutes), 0),
                  overtimeRows,
                  RunPhases(cfg, parsed, AllocationStart(overtimeRows, cfg)))

buildProjectedCardFromHolerith(referenceMonth, cfg, parsed) ==
    ProjectFrom(cfg, parsed, NormalRows(referenceMonth, cfg), OvertimeRows(referenceMonth, cfg))

(***************************************************************************)
(* Lateness and absence of the normal card: the summary view, the payslip  *)
(* view and the server's banked-hours records.                             *)
(***************************************************************************)
LatenessOf(dailyMinutes, journeyMin) ==
    IF dailyMinutes < journeyMin /\ dailyMinutes > 0 THEN journeyMin - dailyMinutes
    ELSE IF dailyMinutes = 0 THEN journeyMin
    ELSE 0

\* variant: Sundays are not told apart
SummaryAtraso_Sunday(entry, cfg) ==
    IF ~isValid(entry.date) THEN 0
    ELSE LET dailyMinutes == sumEntryWorkedMinutes(entry)
             journeyMin == resolveDailyJourneyMinutes(
                 cfg.dailyJourney, entry.isOvertimeCard, getDay(entry.date),
                 cfg.saturdayCompensation, cfg.compDays)
         IN  IF ~entry.isOvertimeCard
             THEN (IF entry.isDPAnnotation THEN 0 ELSE LatenessOf(dailyMinutes, journeyMin))
             ELSE 0

\* SummaryView: what one entry adds to totalAtrasoMinutes
SummaryAtraso(entry, cfg) ==
    IF ~isValid(entry.date) THEN 0
    ELSE LET isSunday == getDay(entry.date) = 0
             dailyMinutes == sumEntryWorkedMinutes(entry)
             journeyMin == resolveDailyJourneyMinutes(
                 cfg.dailyJourney, entry.isOvertimeCard, getDay(entry.date),
                 cfg.saturdayCompensation, cfg.compDays)
         IN  IF ~entry.isOvertimeCard /\ ~isSunday
             THEN (IF entry.isDPAnnotation THEN 0 ELSE LatenessOf(dailyMinutes, journeyMin))
             ELSE 0

\* HolerithView: what one entry of the normal card adds to totalAtrasoMinutes
HolerithAtraso(entry, cfg) ==
    IF ~isValid(entry.date) THEN 0
    ELSE IF getDay(entry.date) = 0 THEN 0
    ELSE LET dailyMinutes == sumEntryWorkedMinutes(entry)
             journey == resolveDailyJourneyMinutes(
                 cfg.dailyJourney, entry.isOvertimeCard, getDay(entry.date),
                 cfg.saturdayCompensation, cfg.compDays)
         IN  IF entry.isDPAnnotation THEN 0 ELSE LatenessOf(dailyMinutes, journey)

\* the server counts every pair whose two sides hold a colon
HasColon(value) == value.k \in {"hhmm", "loose"}

calcEntryTotalMinutes(entry) ==
    LET periods == periodsFromEntry(entry)
        Duration(pair) ==
            IF ~HasColon(pair[1]) \/ ~HasColon(pair[2]) THEN 0
            ELSE LET d == timeToMinutes(pair[2]) - timeToMinutes(pair[1])
                 IN  IF d < 0 THEN d + 24 * 60 ELSE d
    IN  SumSeq([i \in 1..Len(periods) |-> Duration(periods[i])])

\* new Date(dateStr + "T12:00:00").getDay(): a day past the end of its month
\* rolls over into the next month
ServerDayOfWeek(date) ==
    IF isValid(date) THEN getDay(date)
    ELSE LET over == date[3] - DaysInMonth(date[1], date[2])
         IN  IF date[2] = 12 THEN getDay(<<date[1] + 1, 1, over>>)
             ELSE getDay(<<date[1], date[2] + 1, over>>)

\* recomputeBancoHorasForHolerith: the record inserted for one row
BancoHorasRecord(row, journeyMinutes, hasSatComp, compDays) ==
    LET dayOfWeek == ServerDayOfWeek(row.date)
        curJourney == IF hasSatComp
                      THEN (IF Includes(compDays, dayOfWeek) THEN journeyMinutes + 60
                            ELSE IF dayOfWeek = 6 THEN 0 ELSE journeyMinutes)
                      ELSE journeyMinutes
        total == calcEntryTotalMinutes(row)
        Record(type, minutes) == [date |-> row.date, type |-> type, minutes |-> minutes]
    IN  IF dayOfWeek = 0
        THEN (IF total > 0 THEN <<Record("extra", total)>> ELSE <<>>)
        ELSE IF total > curJourney THEN <<Record("extra", total - curJourney)>>
        ELSE IF total > 0 /\ total < curJourney THEN <<Record("atraso", curJourney - total)>>
        ELSE IF total = 0 /\ curJourney > 0 THEN <<Record("atraso", curJourney)>>
        ELSE <<>>

\* the rows of the normal card as the server selects them: date and punches
ServerRow(entry) ==
    [date |-> entry.date, entry1 |-> entry.entry1, exit1 |-> entry.exit1,
     entry2 |-> entry.entry2, exit2 |-> entry.exit2,
     entryExtra |-> entry.entryExtra, exitExtra |-> entry.exitExtra]

RECURSIVE Flatten(_)
Flatten(seqs) == IF seqs = <<>> THEN <<>> ELSE Head(seqs) \o Flatten(Tail(seqs))

recomputeBancoHorasForHolerith(stored, cfg) ==
    LET normal == SelectSeq(stored, LAMBDA e : ~e.isOvertimeCard)
        finalRows == SelectSeq(SortByDate([i \in 1..Len(normal) |-> ServerRow(normal[i])]),
                               LAMBDA row : row.date # NoDate)
    IN  Flatten([i \in 1..Len(finalRows) |->
                    BancoHorasRecord(finalRows[i], RoundHalf(cfg.dailyJourney),
                                     cfg.saturdayCompensation, parseCompDays(cfg.compDays))])

(***************************************************************************)
(* The server stores the lines of the two cards of a month under their     *)
(* work date and reads a card back as 31 lines.                            *)
(***************************************************************************)
\* Math.max(1, Math.min(31, Number(raw || 15)))
clampCycleStartDay(raw) ==
    Max(1, Min(31, IF raw = 0 THEN DefaultCycleStartDay ELSE raw))

\* pick(incoming, current): a blank incoming field keeps the stored one
PickClock(incoming, current) == IF incoming.k = "empty" THEN current ELSE incoming

\* saveCardType for a card of one row: the stored entries after the upsert
saveCardType(stored, type, row, month, year, cycle) ==
    LET wd == getCorrectDate(row.day, month, year, cycle)
        Same(e) == e.isOvertimeCard = (type = "overtime") /\ e.date = wd
        found == SelectSeq(stored, Same)
        existing == IF found = <<>> THEN blankRow(row.day, wd) ELSE found[1]
        merged == [date |-> wd, isOvertimeCard |-> (type = "overtime"),
                   isDPAnnotation |-> row.isDPAnnotation,
                   entry1 |-> PickClock(row.entry1, existing.entry1),
                   exit1 |-> PickClock(row.exit1, existing.exit1),
                   entry2 |-> PickClock(row.entry2, existing.entry2),
                   exit2 |-> PickClock(row.exit2, existing.exit2),
                   entryExtra |-> PickClock(row.entryExtra, existing.entryExtra),
                   exitExtra |-> PickClock(row.exitExtra, existing.exitExtra)]
    IN  IF found = <<>> THEN Append(stored, merged)
        ELSE [i \in 1..Len(stored) |-> IF Same(stored[i]) THEN merged ELSE stored[i]]

hasAnyContent(row) ==
    \/ \E pair \in 1..3 : \E side \in 1..2 : periodsFromEntry(row)[pair][side].k # "empty"
    \/ row.isDPAnnotation

\* buildFull: the 31 lines of one card
buildFull(stored, type, month, year, cycle) ==
    [d \in 1..CardLines |->
        LET dateStr == getCorrectDate(d, month, year, cycle)
            found == SelectSeq(stored, LAMBDA e :
                         e.isOvertimeCard = (type = "overtime") /\ e.date = dateStr)
        IN  IF found = <<>>
            THEN [blankRow(d, dateStr) EXCEPT !.isDPAnnotation = FALSE]
            ELSE [date |-> dateStr, day |-> d,
                  entry1 |-> found[Len(found)].entry1, exit1 |-> found[Len(found)].exit1,
                  entry2 |-> found[Len(found)].entry2, exit2 |-> found[Len(found)].exit2,
                  entryExtra |-> found[Len(found)].entryExtra,
                  exitExtra |-> found[Len(found)].exitExtra,
                  totalHours |-> minutesToTime(calcEntryTotalMinutes(found[Len(found)])),
                  isDPAnnotation |-> found[Len(found)].isDPAnnotation]]

\* the read-out of a month: a card without content is returned as no lines
ReadCard(stored, type, month, year, cycle) ==
    IF \E i \in 1..Len(stored) :
           stored[i].isOvertimeCard = (type = "overtime") /\ hasAnyContent(stored[i])
    THEN buildFull(stored, type, month, year, cycle)
    ELSE <<>>

(***************************************************************************)
(* Inputs of the classification runs.                                      *)
(***************************************************************************)
BaseSettings ==
    [weeklyLimit |-> 0, nightCutoff |-> EmptyClock, dailyJourney |-> 0,
     saturdayCompensation |-> FALSE, compDays |-> <<>>,
     workStart |-> EmptyClock, lunchStart |-> EmptyClock, lunchEnd |-> EmptyClock,
     workEnd |-> EmptyClock, saturdayWorkStart |-> EmptyClock,
     saturdayWorkEnd |-> EmptyClock, cycleStartDay |-> 0,
     baseSalary |-> DecZero, monthlyHours |-> 0, percent50 |-> 0,
     percent100 |-> 0, percentNight |-> 0]

JourneyChoices ==
    { <<0, FALSE>>, <<3, FALSE>>, <<3, TRUE>> }

EngineSettings ==
    { [BaseSettings EXCEPT !.weeklyLimit = w, !.nightCutoff = c,
                           !.dailyJourney = j[1], !.saturdayCompensation = j[2]] :
        w \in {0, 6, 12}, c \in {EmptyClock, HHMM(21, 0)}, j \in JourneyChoices }

Punches(e1, x1, e2, x2, e3, x3) ==
    [entry1 |-> e1, exit1 |-> x1, entry2 |-> e2, exit2 |-> x2,
     entryExtra |-> e3, exitExtra |-> x3]

BlankPunches ==
    Punches(EmptyClock, EmptyClock, EmptyClock, EmptyClock, EmptyClock, EmptyClock)

OvertimePunches ==
    { BlankPunches,
      [BlankPunches EXCEPT !.entry1 = HHMM(21, 58), !.exit1 = HHMM(22, 1)],
      [BlankPunches EXCEPT !.entry1 = HHMM(23, 59), !.exit1 = HHMM(0, 1)],
      [BlankPunches EXCEPT !.entry1 = HHMM(4, 58), !.exit1 = HHMM(5, 1),
                           !.entry2 = HHMM(8, 0), !.exit2 = JunkClock],
      [BlankPunches EXCEPT !.entry1 = HHMM(20, 59), !.exit1 = HHMM(21, 1),
                           !.entryExtra = HHMM(22, 0), !.exitExtra = HHMM(22, 1)],
      [BlankPunches EXCEPT !.entry1 = HHMM(23, 58)],
      [BlankPunches EXCEPT !.exit1 = HHMM(0, 2)] }

NormalPunches ==
    { BlankPunches,
      [BlankPunches EXCEPT !.entry1 = HHMM(8, 0), !.exit1 = HHMM(8, 5)],
      [BlankPunches EXCEPT !.entry1 = HHMM(8, 0), !.exit1 = HHMM(8, 1)] }

EngineDates ==
    { <<2026, 4, 4>>, <<2026, 4, 5>>, <<2026, 4, 6>>, <<2026, 4, 7>>, <<2026, 4, 31>> }

TimeEntry(date, isOvertimeCard, p) ==
    [date |-> date, isOvertimeCard |-> isOvertimeCard,
     entry1 |-> p.entry1, exit1 |-> p.exit1, entry2 |-> p.entry2,
     exit2 |-> p.exit2, entryExtra |-> p.entryExtra, exitExtra |-> p.exitExtra]

EngineEntries ==
    { TimeEntry(d, TRUE, p) : d \in EngineDates, p \in OvertimePunches }
    \cup { TimeEntry(d, FALSE, p) : d \in EngineDates, p \in NormalPunches }

NoCall == [made |-> FALSE, entries |-> <<>>, grand |-> ZeroTotals, weeklySummaries |-> <<>>]
NoRequest == [made |-> FALSE]
NoProjection == [made |-> FALSE]
NoArgs == [fn |-> "none"]
NoValue == [returned |-> FALSE]

EngineIdle ==
    /\ effectiveEntries = <<>>
    /\ wi = 0
    /\ weekEntries = <<>>
    /\ ei = 0
    /\ ctx = NoCtx
    /\ processed = 0
    /\ week = ZeroWeek
    /\ grand = ZeroTotals
    /\ weeklySummaries = <<>>
    /\ grandTotalValue = DecZero
    /\ dayLog = <<>>

Init ==
    /\ settings \in EngineSettings
    /\ entries = <<>>
    /\ pc = "input"
    /\ EngineIdle
    /\ firstCall = NoCall
    /\ request = NoRequest
    /\ projected = NoProjection
    /\ fnArgs = NoArgs
    /\ fnValue = NoValue

(***************************************************************************)
(* The caller collects the entries of the cards.                           *)
(***************************************************************************)
AddEntry ==
    /\ pc = "input"
    /\ Len(entries) < MaxEntries
    /\ \E entry \in EngineEntries : entries' = Append(entries, entry)
    /\ UNCHANGED <<settings, pc, engineVars, callerVars>>

(***************************************************************************)
(* calculateOvertime -> runOvertimeEngine, up to the loop over the weeks.  *)
(* normalizeOvernightEntries works on clones of the rows it is given.      *)
(***************************************************************************)
CloneEntries(es) == es

NormalizeCall(es) ==
    [argument |-> CloneEntries(es), value |-> normalizeOvernightEntries(es)]

Calculate ==
    /\ pc \in {"input", "ready"}
    /\ entries' = NormalizeCall(entries).argument
    /\ effectiveEntries' = NormalizeCall(entries).value
    /\ grand' = ZeroTotals
    /\ weeklySummaries' = <<>>
    /\ grandTotalValue' = DecZero
    /\ dayLog' = <<>>
    /\ wi' = 1
    /\ pc' = "weeks"
    /\ UNCHANGED <<settings, weekEntries, ei, ctx, processed, week, callerVars>>

\* sortedWeekKeys.forEach: start of one week's callback
NextWeek ==
    /\ pc = "weeks"
    /\ wi <= Len(sortedWeekKeys)
    /\ weekEntries' = SortByDate(groupedWeeks[sortedWeekKeys[wi]])
    /\ week' = ZeroWeek
    /\ ei' = 1
    /\ pc' = "days"
    /\ UNCHANGED <<settings, entries, effectiveEntries, wi, ctx, processed, grand,
                   weeklySummaries, grandTotalValue, dayLog, callerVars>>

DayRecord(c) ==
    [date |-> c.date, isSunday |-> c.isSunday,
     isOvertimeCardEntry |-> c.isOvertimeCardEntry,
     dailyJourneyMinutesEntry |-> c.dailyJourneyMinutesEntry,
     dailyTotalMinutes |-> c.dailyTotalMinutes,
     dayOvertimeMinutes |-> c.dayOvertimeMinutes,
     weekBefore |-> week, grandBefore |-> grand]

\* weekEntries.forEach: runDayRuleChain(ctx) up to the minute loop
RunDay ==
    /\ pc = "days"
    /\ ei <= Len(weekEntries)
    /\ LET c == DayContext(weekEntries[ei])
           branch == ClassifyBranch(c.dayOvertimeMinutes, c.isOvertimeCardEntry,
                                    c.isSunday)
       IN  /\ ctx' = c
           /\ dayLog' = Append(dayLog, DayRecord(c))
           /\ processed' = 0
           /\ IF branch = "none"
              THEN /\ ei' = ei + 1
                   /\ UNCHANGED <<pc, week, grand>>
              ELSE IF branch = "bank"
              THEN /\ week' = [week EXCEPT !.totalBancoHoras = @ + c.dayOvertimeMinutes]
                   /\ grand' = [grand EXCEPT !.totalBancoHoras = @ + c.dayOvertimeMinutes]
                   /\ ei' = ei + 1
                   /\ UNCHANGED pc
              ELSE /\ pc' = "minutes"
                   /\ UNCHANGED <<ei, week, grand>>
    /\ UNCHANGED <<settings, entries, effectiveEntries, wi, weekEntries,
                   weeklySummaries, grandTotalValue, callerVars>>

\* classifyAndAccumulateRule: one iteration of the while loop
ClassifyMinute ==
    /\ pc = "minutes"
    /\ processed < TotalOvertimeToProcess(ctx.dayOvertimeMinutes)
    /\ LET position == MinutePosition(ctx.dayEndMinutes, processed)
           night == IsNightPosition(position, nightCutoffMinutes)
           within == IsWithinLimit(settings.weeklyLimit, week.weekOvertimeAccumulator)
           bucket == MinuteBucket(ctx.isSunday, night, within)
           counted == [week EXCEPT ![bucket] = @ + 1]
       IN  /\ week' = IF ctx.isSunday THEN counted
                      ELSE [counted EXCEPT !.weekOvertimeAccumulator = @ + 1]
           /\ grand' = [grand EXCEPT ![bucket] = @ + 1]
    /\ processed' = processed + 1
    /\ IF processed + 1 < TotalOvertimeToProcess(ctx.dayOvertimeMinutes)
       THEN UNCHANGED <<pc, ei>>
       ELSE pc' = "days" /\ ei' = ei + 1
    /\ UNCHANGED <<settings, entries, effectiveEntries, wi, weekEntries, ctx,
                   weeklySummaries, grandTotalValue, dayLog, callerVars>>

WeekSummary ==
    [weekStart |-> weekEntries[1].date,
     weekEnd |-> weekEntries[Len(weekEntries)].date,
     total50Minutes |-> week.total50Minutes,
     total75Minutes |-> week.total75Minutes,
     total100Minutes |-> week.total100Minutes,
     total125Minutes |-> week.total125Minutes,
     totalValue |-> MinutesValue(week, buildRates(settings)),
     totalBancoHoras |-> week.totalBancoHoras]

\* end of one week's callback: weeklySummaries.push
EndWeek ==
    /\ pc = "days"
    /\ ei > Len(weekEntries)
    /\ grandTotalValue' = DecAdd(grandTotalValue, WeekSummary.totalValue)
    /\ weeklySummaries' = Append(weeklySummaries, WeekSummary)
    /\ wi' = wi + 1
    /\ pc' = "weeks"
    /\ UNCHANGED <<settings, entries, effectiveEntries, weekEntries, ei, ctx,
                   processed, week, grand, dayLog, callerVars>>

\* the record runOvertimeEngine returns (minute and money fields)
OvertimeComputationResult ==
    [weeklySummaries |-> weeklySummaries,
     grandTotal50Minutes |-> grand.total50Minutes,
     grandTotal75Minutes |-> grand.total75Minutes,
     grandTotal100Minutes |-> grand.total100Minutes,
     grandTotal125Minutes |-> grand.total125Minutes,
     grandTotalValue |-> toFixed2(grandTotalValue),
     grandTotalBancoHoras |-> grand.totalBancoHoras]
    @@ buildRates(settings)

\* runOvertimeEngine returns the grand totals and the weekly summaries
Return ==
    /\ pc = "weeks"
    /\ wi > Len(sortedWeekKeys)
    /\ pc' = "done"
    /\ UNCHANGED <<settings, entries, engineVars, callerVars>>

EngineStep == NextWeek \/ RunDay \/ ClassifyMinute \/ EndWeek \/ Return

Next == AddEntry \/ Calculate \/ EngineStep

Spec == Init /\ [][Next]_vars

(***************************************************************************)
(* One-day cards: a single row is classified, among them the Sunday of     *)
(* six daytime hours.                                                      *)
(***************************************************************************)
DaySettings ==
    { [BaseSettings EXCEPT !.weeklyLimit = w, !.nightCutoff = c] :
        w \in {0, 6}, c \in {EmptyClock, HHMM(22, 0), HHMM(21, 0)} }

DayPunches ==
    OvertimePunches \cup
    { [BlankPunches EXCEPT !.entry1 = HHMM(8, 0), !.exit1 = HHMM(14, 0)],
      [BlankPunches EXCEPT !.entry1 = HHMM(4, 59), !.exit1 = HHMM(5, 1),
                           !.entry2 = LooseClock(7, 5), !.exit2 = HHMM(7, 10)] }

DayEntries ==
    { TimeEntry(d, TRUE, p) :
        d \in { <<2026, 4, 4>>, <<2026, 4, 5>>, <<2026, 4, 6>> }, p \in DayPunches }

InitDay ==
    /\ settings \in DaySettings
    /\ entries = <<>>
    /\ pc = "input"
    /\ EngineIdle
    /\ firstCall = NoCall
    /\ request = NoRequest
    /\ projected = NoProjection
    /\ fnArgs = NoArgs
    /\ fnValue = NoValue

AddDayEntry ==
    /\ pc = "input"
    /\ entries = <<>>
    /\ \E entry \in DayEntries : entries' = <<entry>>
    /\ UNCHANGED <<settings, pc, engineVars, callerVars>>

NextDay == AddDayEntry \/ (Calculate /\ entries # <<>>) \/ EngineStep

SpecDay == InitDay /\ [][NextDay]_vars

(***************************************************************************)
(* A caller that runs the engine a second time on the same rows, handed    *)
(* over in any order.                                                      *)
(***************************************************************************)
MaxTwiceEntries == 3

TwiceSettings == { [BaseSettings EXCEPT !.weeklyLimit = w] : w \in {0, 6} }

TwicePunches ==
    { [BlankPunches EXCEPT !.entry1 = HHMM(21, 58), !.exit1 = HHMM(22, 1)],
      [BlankPunches EXCEPT !.entry1 = HHMM(23, 58)],
      [BlankPunches EXCEPT !.exit1 = HHMM(0, 2)] }

TwiceEntries ==
    { TimeEntry(d, TRUE, p) :
        d \in { NoDate, <<2026, 4, 5>>, <<2026, 4, 6>>, <<2026, 4, 31>> },
        p \in TwicePunches }

Permuted(seq) ==
    { [i \in 1..Len(seq) |-> seq[p[i]]] :
        p \in { q \in [1..Len(seq) -> 1..Len(seq)] :
                   \A i, j \in 1..Len(seq) : q[i] = q[j] => i = j } }

InitTwice ==
    /\ settings \in TwiceSettings
    /\ entries = <<>>
    /\ pc = "input"
    /\ EngineIdle
    /\ firstCall = NoCall
    /\ request = NoRequest
    /\ projected = NoProjection
    /\ fnArgs = NoArgs
    /\ fnValue = NoValue

\* rows with pairwise distinct dates
AddDistinctEntry ==
    /\ pc = "input"
    /\ Len(entries) < MaxTwiceEntries
    /\ \E entry \in TwiceEntries :
          /\ \A i \in 1..Len(entries) : entries[i].date # entry.date
          /\ entries' = Append(entries, entry)
    /\ UNCHANGED <<settings, pc, engineVars, callerVars>>

CallAgain ==
    /\ pc = "done"
    /\ ~firstCall.made
    /\ firstCall' = [made |-> TRUE, entries |-> entries, grand |-> grand,
                     weeklySummaries |-> weeklySummaries]
    /\ entries' \in Permuted(entries)
    /\ pc' = "ready"
    /\ UNCHANGED <<settings, engineVars, request, projected, fnArgs, fnValue>>

NextTwice ==
    AddDistinctEntry \/ (Calculate /\ entries # <<>>) \/ EngineStep \/ CallAgain

SpecTwice == InitTwice /\ [][NextTwice]_vars

(***************************************************************************)
(* A payslip is projected onto a card, the projected overtime card is      *)
(* opened and classified.                                                  *)
(***************************************************************************)
MaxRequested == 2

ProjectionSettings ==
    { [BaseSettings EXCEPT !.weeklyLimit = w, !.nightCutoff = c] :
        w \in {0, 4}, c \in {EmptyClock, HHMM(21, 0)} }

\* the minutes requested by a payslip: up to MaxRequested in a tier, and no more
\* than MaxRequested + 1 in all
RequestedMinutes ==
    { t \in (0..MaxRequested) \X (0..MaxRequested) \X (0..MaxRequested) \X (0..MaxRequested) :
        t[1] + t[2] + t[3] + t[4] <= MaxRequested + 1 }

ParsedHolerith ==
    { [made |-> TRUE, referenceMonth |-> month,
       he50Minutes |-> t[1], he75Minutes |-> t[2], he100Minutes |-> t[3],
       he125Minutes |-> t[4], atrasoMinutes |-> late] :
        month \in { <<2026, 4>>, <<2026, 3>> }, t \in RequestedMinutes, late \in {0, 61} }

InitProjection ==
    /\ settings \in ProjectionSettings
    /\ entries = <<>>
    /\ pc = "parsed"
    /\ EngineIdle
    /\ firstCall = NoCall
    /\ request \in ParsedHolerith
    /\ projected = NoProjection
    /\ fnArgs = NoArgs
    /\ fnValue = NoValue

BuildProjection ==
    /\ pc = "parsed"
    /\ projected' = buildProjectedCardFromHolerith(request.referenceMonth, settings, request)
    /\ pc' = "preview"
    /\ UNCHANGED <<settings, entries, engineVars, firstCall, request, fnArgs, fnValue>>

\* the lines of the projected overtime card become the entries of the overtime card
OpenProjectedCard ==
    /\ pc = "preview"
    /\ entries' = [i \in 1..Len(projected.he) |->
                      TimeEntry(projected.he[i].date, TRUE, projected.he[i])]
    /\ pc' = "ready"
    /\ UNCHANGED <<settings, engineVars, callerVars>>

\* the allocation of a payslip's overtime, one call of allocateTypeMinutes at
\* a time; fnValue holds the day plans, the week accumulator and what the
\* calls made so far returned
PhaseSettings ==
    { [BaseSettings EXCEPT !.weeklyLimit = w, !.nightCutoff = c,
                           !.saturdayCompensation = comp, !.cycleStartDay = cycle] :
        w \in {0, 4}, c \in {EmptyClock, HHMM(21, 0), HHMM(23, 0)},
        comp \in BOOLEAN, cycle \in {0, 20} }

PhaseRequests ==
    { [made |-> TRUE, referenceMonth |-> <<2026, 4>>,
       he50Minutes |-> t[1], he75Minutes |-> t[2], he100Minutes |-> t[3],
       he125Minutes |-> t[4], atrasoMinutes |-> 0] : t \in RequestedMinutes }

\* a night that starts at 08:01 and a shift that starts at 08:00: a Sunday has
\* one tier-100 minute, and the hours before the shift are day hours
EarlyNightSettings ==
    [BaseSettings EXCEPT !.weeklyLimit = 4, !.nightCutoff = HHMM(8, 1),
                         !.workStart = HHMM(8, 0)]

\* more tier-100 minutes than the Sundays of the cycle take
OverflowRequests ==
    { [made |-> TRUE, referenceMonth |-> <<2026, 4>>,
       he50Minutes |-> low, he75Minutes |-> 0, he100Minutes |-> high,
       he125Minutes |-> 1, atrasoMinutes |-> 0] : low \in 0..1, high \in 4..6 }

InitPhases ==
    /\ \/ settings \in PhaseSettings /\ request \in PhaseRequests
       \/ settings = EarlyNightSettings /\ request \in OverflowRequests
    /\ entries = <<>>
    /\ pc = "parsed"
    /\ EngineIdle
    /\ firstCall = NoCall
    /\ projected = NoProjection
    /\ fnArgs = NoArgs
    /\ fnValue = NoValue

\* buildDayPlans(overtimeRows, settings).sort(...), new Map()
PlanDays ==
    /\ pc = "parsed"
    /\ fnValue' = AllocationStart(OvertimeRows(request.referenceMonth, settings), settings)
                      @@ [returned |-> FALSE]
    /\ pc' = "allocating"
    /\ UNCHANGED <<settings, entries, engineVars, firstCall, request, projected, fnArgs>>

\* the next of the six calls of allocateTypeMinutes
AllocatePhase ==
    /\ pc = "allocating"
    /\ fnValue.phase <= Len(AllocationPhases)
    /\ fnValue' = RunPhase(settings, request, fnValue) @@ [returned |-> FALSE]
    /\ pc' = IF fnValue.phase = Len(AllocationPhases) THEN "allocated" ELSE "allocating"
    /\ UNCHANGED <<settings, entries, engineVars, firstCall, request, projected, fnArgs>>

\* applySegmentsToRows, finalizeTotals and the returned record
WriteCard ==
    /\ pc = "allocated"
    /\ projected' = ProjectedCard(
                        request,
                        ApplyAtraso(NormalRows(request.referenceMonth, settings), 1,
                                    Max(0, request.atrasoMinutes), 0),
                        OvertimeRows(request.referenceMonth, settings), fnValue)
    /\ pc' = "preview"
    /\ UNCHANGED <<settings, entries, engineVars, firstCall, request, fnArgs, fnValue>>

NextPhases == PlanDays \/ AllocatePhase \/ WriteCard

SpecPhases == InitPhases /\ [][NextPhases]_vars

\* payslips that ask for lateness only, against several afternoons
AtrasoSettings ==
    { [BaseSettings EXCEPT !.lunchEnd = l, !.workEnd = w, !.saturdayCompensation = c] :
        l \in {EmptyClock, HHMM(20, 30)}, w \in {EmptyClock, HHMM(17, 0)},
        c \in BOOLEAN }

AtrasoRequests ==
    { [made |-> TRUE, referenceMonth |-> month, he50Minutes |-> 0, he75Minutes |-> 0,
       he100Minutes |-> 0, he125Minutes |-> 0, atrasoMinutes |-> late] :
        month \in { <<2026, 4>>, <<2026, 3>> }, late \in {0, 1, 61, 700, 1400} }

InitAtraso ==
    /\ settings \in AtrasoSettings
    /\ entries = <<>>
    /\ pc = "parsed"
    /\ EngineIdle
    /\ firstCall = NoCall
    /\ request \in AtrasoRequests
    /\ projected = NoProjection
    /\ fnArgs = NoArgs
    /\ fnValue = NoValue

SpecAtraso == InitAtraso /\ [][BuildProjection]_vars

NextProjection == BuildProjection \/ OpenProjectedCard \/ Calculate \/ EngineStep

SpecProjection == InitProjection /\ [][NextProjection]_vars

(***************************************************************************)
(* The cards of a month are classified, then the views add up the lateness *)
(* and the server rebuilds its banked-hours records.                       *)
(***************************************************************************)
MaxLateEntries == 1

LatenessSettings ==
    { [BaseSettings EXCEPT !.dailyJourney = j, !.saturdayCompensation = sat] :
        j \in {0, 3, 8}, sat \in BOOLEAN }

LatePunches ==
    { BlankPunches,
      [BlankPunches EXCEPT !.entry1 = HHMM(8, 0), !.exit1 = HHMM(8, 1)],
      [BlankPunches EXCEPT !.entry1 = HHMM(8, 0), !.exit1 = HHMM(8, 2)],
      [BlankPunches EXCEPT !.entry1 = HHMM(8, 0), !.exit1 = HHMM(8, 5)],
      [BlankPunches EXCEPT !.entry1 = HHMM(8, 0), !.exit1 = LooseClock(8, 3)] }

LateDates ==
    { NoDate, <<2026, 4, 4>>, <<2026, 4, 5>>, <<2026, 4, 6>>, <<2026, 4, 10>>, <<2026, 4, 31>> }

LateEntries ==
    { [date |-> d, isOvertimeCard |-> card, isDPAnnotation |-> noted,
       entry1 |-> p.entry1, exit1 |-> p.exit1, entry2 |-> p.entry2,
       exit2 |-> p.exit2, entryExtra |-> p.entryExtra, exitExtra |-> p.exitExtra] :
        d \in LateDates, card \in BOOLEAN, noted \in BOOLEAN, p \in LatePunches }

InitLateness ==
    /\ settings \in LatenessSettings
    /\ entries = <<>>
    /\ pc = "input"
    /\ EngineIdle
    /\ firstCall = NoCall
    /\ request = NoRequest
    /\ projected = NoProjection
    /\ fnArgs = NoArgs
    /\ fnValue = NoValue

AddLateEntry ==
    /\ pc = "input"
    /\ Len(entries) < MaxLateEntries
    /\ \E entry \in LateEntries :
          /\ \A i \in 1..Len(entries) : entries[i].date # entry.date
          /\ entries' = Append(entries, entry)
    /\ UNCHANGED <<settings, pc, engineVars, callerVars>>

\* after calculateOvertime: the lateness of the two views, entry by entry, and
\* the records of the server
SummariseLateness ==
    /\ pc = "done"
    /\ LET effective == normalizeOvernightEntries(entries)
           normals == normalizeOvernightEntries(
                          SelectSeq(effective, LAMBDA e : ~e.isOvertimeCard))
       IN  fnValue' =
             [returned |-> TRUE,
              summary |-> [i \in 1..Len(effective) |->
                             [entry |-> effective[i],
                              minutes |-> SummaryAtraso(effective[i], settings)]],
              holerith |-> [i \in 1..Len(normals) |->
                              [entry |-> normals[i],
                               minutes |-> HolerithAtraso(normals[i], settings)]],
              bancoHoras |-> recomputeBancoHorasForHolerith(entries, settings)]
    /\ pc' = "summarised"
    /\ UNCHANGED <<settings, entries, engineVars, firstCall, request, projected, fnArgs>>

NextLateness ==
    AddLateEntry \/ (Calculate /\ entries # <<>>) \/ EngineStep \/ SummariseLateness

SpecLateness == InitLateness /\ [][NextLateness]_vars

(***************************************************************************)
(* The cards of a month: a payslip of the month is projected, then lines   *)
(* are saved on the server and the cards are read back.                    *)
(***************************************************************************)
MaxSavedLines == 2

CardSettings ==
    { [BaseSettings EXCEPT !.cycleStartDay = c] : c \in {0, 1, 29} }

CardRequests ==
    { [made |-> TRUE, referenceMonth |-> month,
       he50Minutes |-> a, he75Minutes |-> 0, he100Minutes |-> c, he125Minutes |-> 0,
       atrasoMinutes |-> late] :
        month \in { <<2026, 2>>, <<2026, 3>>, <<2026, 4>> },
        a \in {0}, c \in {0, 1}, late \in {61} }

SavedRows ==
    { [day |-> d, isDPAnnotation |-> noted,
       entry1 |-> p.entry1, exit1 |-> p.exit1, entry2 |-> p.entry2,
       exit2 |-> p.exit2, entryExtra |-> p.entryExtra, exitExtra |-> p.exitExtra] :
        d \in {30, 31}, noted \in BOOLEAN,
        p \in { BlankPunches,
                [BlankPunches EXCEPT !.entry1 = HHMM(8, 0), !.exit1 = HHMM(8, 5)] } }

InitCard ==
    /\ settings \in CardSettings
    /\ entries = <<>>
    /\ pc = "parsed"
    /\ EngineIdle
    /\ firstCall = NoCall
    /\ request \in CardRequests
    /\ projected = NoProjection
    /\ fnArgs = [fn |-> "card", saved |-> 0]
    /\ fnValue = NoValue

\* POST of one line of one card of the month
SaveLine ==
    /\ pc = "preview"
    /\ fnArgs.saved < MaxSavedLines
    /\ ~fnValue.returned
    /\ \E type \in {"normal", "overtime"}, row \in SavedRows :
          entries' = saveCardType(entries, type, row, request.referenceMonth[2],
                                  request.referenceMonth[1],
                                  clampCycleStartDay(settings.cycleStartDay))
    /\ fnArgs' = [fnArgs EXCEPT !.saved = @ + 1]
    /\ UNCHANGED <<settings, pc, engineVars, firstCall, request, projected, fnValue>>

\* GET of the month: the two cards as the server returns them
ReadCards ==
    /\ pc = "preview"
    /\ ~fnValue.returned
    /\ fnValue' = [returned |-> TRUE,
                   hours |-> ReadCard(entries, "normal", request.referenceMonth[2],
                                      request.referenceMonth[1],
                                      clampCycleStartDay(settings.cycleStartDay)),
                   he |-> ReadCard(entries, "overtime", request.referenceMonth[2],
                                   request.referenceMonth[1],
                                   clampCycleStartDay(settings.cycleStartDay))]
    /\ UNCHANGED <<settings, entries, pc, engineVars, firstCall, request, projected, fnArgs>>

NextCard == SaveLine \/ ReadCards \/ BuildProjection

SpecCard == InitCard /\ [][NextCard]_vars

(***************************************************************************)
(* Calls of the pure helpers: the arguments are drawn in the initial       *)
(* state and the call returns in one step.                                 *)
(***************************************************************************)
WeekYear == 2026

SeqOfSet(S) ==
    [i \in 1..Cardinality(S) |->
        CHOOSE x \in S : Cardinality({y \in S : y < x}) = i - 1]

CompDaysChoices ==
    { [i \in 1..Cardinality(S) |-> Tok(SeqOfSet(S)[i])] : S \in SUBSET (0..6) }
    \cup { <<NaNTok>>, <<Tok(2), NaNTok, Tok(5)>>, <<Tok(7)>> }

JourneyArgs ==
    { [fn |-> "resolveDailyJourneyMinutes", baseDailyJourneyHours |-> h,
       isOvertimeCardEntry |-> card, dayOfWeek |-> dow,
       saturdayCompensation |-> sat, compDaysRaw |-> raw] :
        h \in {0, 3, 960}, card \in BOOLEAN, dow \in 0..6, sat \in BOOLEAN,
        raw \in CompDaysChoices }

WeekKeyArgs ==
    { [fn |-> "customWeekKey", earlier |-> <<WeekYear, m, a>>, later |-> <<WeekYear, m, b>>] :
        m \in 1..12, a \in 1..31, b \in 1..31 }

CallerIdle ==
    /\ settings = BaseSettings
    /\ entries = <<>>
    /\ pc = "call"
    /\ EngineIdle
    /\ firstCall = NoCall
    /\ request = NoRequest
    /\ projected = NoProjection
    /\ fnValue = NoValue

InitJourney == CallerIdle /\ fnArgs \in JourneyArgs

CallResolveJourney ==
    /\ pc = "call"
    /\ fnArgs.fn = "resolveDailyJourneyMinutes"
    /\ fnValue' = [returned |-> TRUE,
                   minutes |-> resolveDailyJourneyMinutes(
                       fnArgs.baseDailyJourneyHours, fnArgs.isOvertimeCardEntry,
                       fnArgs.dayOfWeek, fnArgs.saturdayCompensation,
                       fnArgs.compDaysRaw)]
    /\ pc' = "returned"
    /\ UNCHANGED <<settings, entries, engineVars, firstCall, request, projected, fnArgs>>

SpecJourney == InitJourney /\ [][CallResolveJourney]_vars

InitWeekKey ==
    /\ CallerIdle
    /\ fnArgs \in { args \in WeekKeyArgs :
            /\ isValid(args.earlier) /\ isValid(args.later)
            /\ args.earlier[3] <= args.later[3] }

\* the week keys of two dates of one month, by the engine and by the projection
CallWeekKey ==
    /\ pc = "call"
    /\ fnArgs.fn = "customWeekKey"
    /\ fnValue' = [returned |-> TRUE,
                   earlier |-> customWeekKey(fnArgs.earlier),
                   later |-> customWeekKey(fnArgs.later),
                   earlierProjection |-> getCustomWeekKey(fnArgs.earlier),
                   laterProjection |-> getCustomWeekKey(fnArgs.later)]
    /\ pc' = "returned"
    /\ UNCHANGED <<settings, entries, engineVars, firstCall, request, projected, fnArgs>>

SpecWeekKey == InitWeekKey /\ [][CallWeekKey]_vars

WorkDateArgs ==
    { [fn |-> "resolveWorkDateByCompetenciaDay", day |-> d, referenceMonth |-> m,
       referenceYear |-> y, cycleStartDay |-> c] :
        d \in 1..CardLines, m \in 1..12, y \in {WeekYear - 1, WeekYear}, c \in 0..CardLines }

InitWorkDate == CallerIdle /\ fnArgs \in WorkDateArgs

\* the date of one card line, by the projection and by the server's read-out
CallWorkDate ==
    /\ pc = "call"
    /\ fnArgs.fn = "resolveWorkDateByCompetenciaDay"
    /\ fnValue' = [returned |-> TRUE,
                   date |-> resolveWorkDateByCompetenciaDay(
                       fnArgs.day, fnArgs.referenceMonth, fnArgs.referenceYear,
                       fnArgs.cycleStartDay),
                   serverDate |-> getCorrectDate(
                       fnArgs.day, fnArgs.referenceMonth, fnArgs.referenceYear,
                       fnArgs.cycleStartDay)]
    /\ pc' = "returned"
    /\ UNCHANGED <<settings, entries, engineVars, firstCall, request, projected, fnArgs>>

SpecWorkDate == InitWorkDate /\ [][CallWorkDate]_vars

(***************************************************************************)
(* The worked minutes of a row, by timeMath and by the older copy of       *)
(* calculateOvertime kept in calculations.ts.  A junk text is one without  *)
(* a colon.                                                                *)
(***************************************************************************)
\* the older loop over the periods: a pair with both sides empty is skipped, a
\* missing side stands for '00:00', a side without a colon skips the pair
LegacyPeriodMinutes(start, end) ==
    LET sVal == OrDefault(start, HHMM(0, 0))
        eVal == OrDefault(end, HHMM(0, 0))
        duration == timeToMinutes(eVal) - timeToMinutes(sVal)
    IN  IF start.k = "empty" /\ end.k = "empty" THEN 0
        ELSE IF ~HasColon(sVal) \/ ~HasColon(eVal) THEN 0
        ELSE IF duration < 0 THEN duration + 24 * 60 ELSE duration

LegacyWorkedMinutes(entry) ==
    LET periods == periodsFromEntry(entry)
    IN  SumSeq([i \in 1..Len(periods) |-> LegacyPeriodMinutes(periods[i][1], periods[i][2])])

ClockTexts ==
    { EmptyClock, JunkClock, LooseClock(8, 5) }
    \cup { HHMM(h, m) : h \in {0, 8, 23}, m \in {0, 1} }

ClockArgs ==
    { [fn |-> "sumEntryWorkedMinutes",
       entry |-> [BlankPunches EXCEPT !.entry1 = pair[1], !.exit1 = pair[2],
                                      !.entry2 = other[1], !.exit2 = other[2]]] :
        pair \in ClockTexts \X ClockTexts,
        other \in { <<EmptyClock, EmptyClock>>, <<HHMM(13, 0), HHMM(13, 5)>> } }

InitClock == CallerIdle /\ fnArgs \in ClockArgs

\* the minutes of the two sides of the first pair and the worked minutes of the
\* row, with and without that pair
CallClock ==
    /\ pc = "call"
    /\ fnArgs.fn = "sumEntryWorkedMinutes"
    /\ LET rest == [fnArgs.entry EXCEPT !.entry1 = EmptyClock, !.exit1 = EmptyClock]
       IN  fnValue' = [returned |-> TRUE,
                       startMinutes |-> timeToMinutes(fnArgs.entry.entry1),
                       endMinutes |-> timeToMinutes(fnArgs.entry.exit1),
                       worked |-> sumEntryWorkedMinutes(fnArgs.entry),
                       workedRest |-> sumEntryWorkedMinutes(rest),
                       legacy |-> LegacyWorkedMinutes(fnArgs.entry),
                       legacyRest |-> LegacyWorkedMinutes(rest)]
    /\ pc' = "returned"
    /\ UNCHANGED <<settings, entries, engineVars, firstCall, request, projected, fnArgs>>

SpecClock == InitClock /\ [][CallClock]_vars

(***************************************************************************)
(* parsePontoImage (OCR of a card): the primary provider, the retries of   *)
(* parseWithGemini and the fallback.  fnArgs holds the settings of the     *)
(* call (each key as configured or not), fnValue the progress of the call: *)
(* the providers asked so far, the failures of Gemini, the backoffs slept  *)
(* and the error thrown.  Each answer of a provider is a step of its own.  *)
(***************************************************************************)
maxAttempts == 4

\* error texts a provider call can fail with
ProviderErrors ==
    { "{status:UNAVAILABLE}", "model is experiencing high demand", "503 Service",
      "429 quota exceeded", "Unexpected token in JSON" }

NoKeyError == "Chave de API nao configurada."

NoFallbackError == "Gemini indisponivel no momento (alta demanda)."

isGeminiUnavailableError(error) ==
    error \in { "{status:UNAVAILABLE}", "model is experiencing high demand", "503 Service" }

RECURSIVE Pow2(_)
Pow2(n) == IF n = 0 THEN 1 ELSE 2 * Pow2(n - 1)

\* Math.min(8000, 700 * (2 ** (attempt - 1)))
backoffMs(attempt) == Min(8000, 700 * Pow2(attempt - 1))

ApiKeyOf(cfg, provider) ==
    CASE provider = "gemini" -> cfg.geminiApiKey
      [] provider = "openai" -> cfg.openaiApiKey
      [] provider = "codex" -> cfg.codexApiKey

\* variant: Codex is tried before OpenAI
getGeminiFallbackStrategies_CodexFirst(cfg) ==
    (IF cfg.codexApiKey THEN <<"codex">> ELSE <<>>)
        \o (IF cfg.openaiApiKey THEN <<"openai">> ELSE <<>>)

getGeminiFallbackStrategies(cfg) ==
    (IF cfg.openaiApiKey THEN <<"openai">> ELSE <<>>)
        \o (IF cfg.codexApiKey THEN <<"codex">> ELSE <<>>)

\* settings.aiProvider || 'gemini'
ProviderOf(cfg) == IF cfg.aiProvider = "" THEN "gemini" ELSE cfg.aiProvider

OcrArgs ==
    [fn : {"parsePontoImage"}, aiProvider : {"", "gemini", "openai", "codex"},
     geminiApiKey : BOOLEAN, openaiApiKey : BOOLEAN, codexApiKey : BOOLEAN]

OcrStart ==
    [returned |-> FALSE, attempt |-> 0, requests |-> <<>>, failures |-> <<>>,
     sleeps |-> <<>>, error |-> ""]

InitOcr ==
    /\ settings = BaseSettings
    /\ entries = <<>>
    /\ pc = "call"
    /\ EngineIdle
    /\ firstCall = NoCall
    /\ request = NoRequest
    /\ projected = NoProjection
    /\ fnArgs \in OcrArgs
    /\ fnValue = OcrStart

\* the catch of parsePontoImage around the primary strategy: the error thrown
\* by parseWithGemini is passed on, or the first fallback is called
GeminiFailed(value, error) ==
    LET fallbacks == getGeminiFallbackStrategies(fnArgs)
    IN  IF ~isGeminiUnavailableError(error)
        THEN [pc |-> "failed", value |-> [value EXCEPT !.error = error, !.returned = TRUE]]
        ELSE IF Len(fallbacks) = 0
        THEN [pc |-> "failed",
              value |-> [value EXCEPT !.error = NoFallbackError, !.returned = TRUE]]
        ELSE [pc |-> "awaitFallback",
              value |-> [value EXCEPT !.requests = Append(@, fallbacks[1])]]

\* parsePontoImage up to the first await of the primary strategy
CallParse ==
    /\ pc = "call"
    /\ fnArgs.fn = "parsePontoImage"
    /\ LET provider == ProviderOf(fnArgs)
           thrown == IF provider = "gemini" THEN GeminiFailed(fnValue, NoKeyError)
                     ELSE [pc |-> "failed",
                           value |-> [fnValue EXCEPT !.error = NoKeyError, !.returned = TRUE]]
       IN  IF ~ApiKeyOf(fnArgs, provider)
           THEN pc' = thrown.pc /\ fnValue' = thrown.value
           ELSE /\ pc' = IF provider = "gemini" THEN "awaitGemini" ELSE "awaitPrimary"
                /\ fnValue' = [fnValue EXCEPT
                                  !.attempt = IF provider = "gemini" THEN 1 ELSE 0,
                                  !.requests = Append(@, provider)]
    /\ UNCHANGED <<settings, entries, engineVars, firstCall, request, projected, fnArgs>>

\* generateContent answers and the answer parses
GeminiAnswers ==
    /\ pc = "awaitGemini"
    /\ pc' = "returned"
    /\ fnValue' = [fnValue EXCEPT !.returned = TRUE]
    /\ UNCHANGED <<settings, entries, engineVars, firstCall, request, projected, fnArgs>>

\* the catch inside the loop of parseWithGemini
GeminiThrows ==
    /\ pc = "awaitGemini"
    /\ \E error \in ProviderErrors :
          LET failed == [fnValue EXCEPT !.failures = Append(@, error)]
          IN  IF ~isGeminiUnavailableError(error) \/ fnValue.attempt = maxAttempts
              THEN /\ pc' = GeminiFailed(failed, error).pc
                   /\ fnValue' = GeminiFailed(failed, error).value
              ELSE /\ pc' = "sleeping"
                   /\ fnValue' = [failed EXCEPT !.sleeps = Append(@, backoffMs(fnValue.attempt))]
    /\ UNCHANGED <<settings, entries, engineVars, firstCall, request, projected, fnArgs>>

\* the sleep is over: the next turn of the loop
Retry ==
    /\ pc = "sleeping"
    /\ pc' = "awaitGemini"
    /\ fnValue' = [fnValue EXCEPT !.attempt = @ + 1, !.requests = Append(@, "gemini")]
    /\ UNCHANGED <<settings, entries, engineVars, firstCall, request, projected, fnArgs>>

\* parseWithOpenAI answers, as primary strategy or as fallback
OpenAIAnswers ==
    /\ pc \in {"awaitPrimary", "awaitFallback"}
    /\ pc' = "returned"
    /\ fnValue' = [fnValue EXCEPT !.returned = TRUE]
    /\ UNCHANGED <<settings, entries, engineVars, firstCall, request, projected, fnArgs>>

OpenAIThrows ==
    /\ pc \in {"awaitPrimary", "awaitFallback"}
    /\ \E error \in ProviderErrors :
          /\ pc' = "failed"
          /\ fnValue' = [fnValue EXCEPT !.error = error, !.returned = TRUE]
    /\ UNCHANGED <<settings, entries, engineVars, firstCall, request, projected, fnArgs>>

NextOcr ==
    \/ CallParse
    \/ GeminiAnswers
    \/ GeminiThrows
    \/ Retry
    \/ OpenAIAnswers
    \/ OpenAIThrows

SpecOcr == InitOcr /\ [][NextOcr]_vars

(***************************************************************************)
(* normalizeOvernightEntries called on the rows of the two cards together, *)
(* as SummaryView and runOvertimeEngine call it.                           *)
(***************************************************************************)
MaxOvernightRows == 3

OvernightPunches ==
    { [BlankPunches EXCEPT !.entry1 = HHMM(23, 58)],
      [BlankPunches EXCEPT !.exit1 = HHMM(0, 2)],
      [BlankPunches EXCEPT !.entry1 = HHMM(8, 0), !.exit1 = HHMM(12, 0),
                           !.entry2 = HHMM(22, 0), !.exit2 = JunkClock],
      [BlankPunches EXCEPT !.exit1 = HHMM(0, 5), !.exit2 = HHMM(1, 0)] }

OvernightRows ==
    { TimeEntry(d, card, p) :
        d \in { <<2026, 4, 4>>, <<2026, 4, 5>>, <<2026, 4, 7>> },
        card \in BOOLEAN, p \in OvernightPunches }

OvernightArgs ==
    { [fn |-> "normalizeOvernightEntries", entries |-> es] :
        es \in UNION { [1..n -> OvernightRows] : n \in 1..MaxOvernightRows } }

InitOvernight == CallerIdle /\ fnArgs \in OvernightArgs

CallNormalize ==
    /\ pc = "call"
    /\ fnArgs.fn = "normalizeOvernightEntries"
    /\ fnValue' = [returned |-> TRUE] @@ NormalizeCall(fnArgs.entries)
    /\ pc' = "returned"
    /\ UNCHANGED <<settings, entries, engineVars, firstCall, request, projected, fnArgs>>

SpecOvernight == InitOvernight /\ [][CallNormalize]_vars

(***************************************************************************)
(* The two classifiers of a minute, called with the same settings: the     *)
(* allocator's classifyMinuteRateType with the cap and the cutoff as       *)
(* buildProjectedCardFromHolerith computes them, and one iteration of the  *)
(* loop of classifyAndAccumulateRule for the minute that starts at the     *)
(* same clock position.                                                    *)
(***************************************************************************)
ClassifySettings ==
    { [BaseSettings EXCEPT !.weeklyLimit = w, !.nightCutoff = c] :
        w \in 0..9, c \in {EmptyClock, HHMM(21, 0), HHMM(23, 30)} }

ClassifyMinutes == {0, 299, 300, 720, 1259, 1260, 1319, 1320, 1409, 1410, 1439}

ClassifyArgs ==
    [fn : {"classifyMinuteRateType"}, dayOfWeek : 0..6, minuteOfDay : ClassifyMinutes,
     weekAccumulator : 0..3]

InitClassify ==
    /\ settings \in ClassifySettings
    /\ entries = <<>>
    /\ pc = "call"
    /\ EngineIdle
    /\ firstCall = NoCall
    /\ request = NoRequest
    /\ projected = NoProjection
    /\ fnArgs \in ClassifyArgs
    /\ fnValue = NoValue

\* Math.max(0, Math.round((settings.weeklyLimit || 0) * 60))
AllocatorLimitMinutes(cfg) == Max(0, (cfg.weeklyLimit + 2) \div 4)

\* Math.max(0, timeToMinutes(settings.nightCutoff || '22:00'))
AllocatorCutoffMinutes(cfg) == Max(0, timeToMinutes(OrDefault(cfg.nightCutoff, HHMM(22, 0))))

\* the total the loop of classifyAndAccumulateRule adds to, for the minute that
\* starts at minuteOfDay (its position is minuteOfDay + 0.5)
EngineMinuteBucket(dayOfWeek, minuteOfDay, accumulator) ==
    MinuteBucket(dayOfWeek = 0,
                 IsNightPosition(2 * minuteOfDay + 1, nightCutoffMinutes),
                 IsWithinLimit(settings.weeklyLimit, accumulator))

CallClassify ==
    /\ pc = "call"
    /\ fnArgs.fn = "classifyMinuteRateType"
    /\ fnValue' = [returned |-> TRUE,
                   rateType |-> classifyMinuteRateType(
                                    fnArgs.dayOfWeek, fnArgs.minuteOfDay, fnArgs.weekAccumulator,
                                    AllocatorLimitMinutes(settings), AllocatorCutoffMinutes(settings)),
                   bucket |-> EngineMinuteBucket(fnArgs.dayOfWeek, fnArgs.minuteOfDay,
                                                 fnArgs.weekAccumulator)]
    /\ pc' = "returned"
    /\ UNCHANGED <<settings, entries, engineVars, firstCall, request, projected, fnArgs>>

SpecClassify == InitClassify /\ [][CallClassify]_vars

(***************************************************************************)
(* Holiday calendar.  A JS Date at local midnight is the number of its     *)
(* day (Julian day number); toISOString().slice(5, 10) is the pair         *)
(* <<month, day>> of that day, as it is in a time zone at or west of UTC.  *)
(***************************************************************************)
JulianDay(y, m, d) ==
    LET a == (14 - m) \div 12
        yy == y + 4800 - a
        mm == m + 12 * a - 3
    IN  d + ((153 * mm + 2) \div 5) + 365 * yy + (yy \div 4) - (yy \div 100)
          + (yy \div 400) - 32045

\* the calendar date <<y, m, d>> of a day number
CivilDate(n) ==
    LET a == n + 32044
        b == (4 * a + 3) \div 146097
        c == a - ((146097 * b) \div 4)
        d == (4 * c + 3) \div 1461
        e == c - ((1461 * d) \div 4)
        m == (5 * e + 2) \div 153
    IN  << 100 * b + d - 4800 + (m \div 10), m + 3 - 12 * (m \div 10),
           e - ((153 * m + 2) \div 5) + 1 >>

\* new Date(year, monthIndex, day): month index and day roll over
NewDate(year, monthIndex, day) ==
    JulianDay(year + (monthIndex \div 12), (monthIndex % 12) + 1, 1) + day - 1

\* Date.prototype.getDay of a day number
WeekDayOf(n) == (n + 1) % 7

MonthDay(n) == << CivilDate(n)[2], CivilDate(n)[3] >>

FERIADOS_FIXOS ==
    { <<1, 1>>, <<4, 21>>, <<5, 1>>, <<9, 7>>, <<10, 12>>, <<11, 2>>, <<11, 15>>, <<12, 25>> }

calcularPascoa(ano) ==
    LET a == ano % 19
        b == ano \div 100
        c == ano % 100
        d == b \div 4
        e == b % 4
        f == (b + 8) \div 25
        g == (b - f + 1) \div 3
        h == (19 * a + b - d - g + 15) % 30
        i == c \div 4
        k == c % 4
        l == (32 + 2 * e + 2 * i - h - k) % 7
        m == (a + 11 * h + 22 * l) \div 451
        mes == (h + l - 7 * m + 114) \div 31
        dia == ((h + l - 7 * m + 114) % 31) + 1
    IN  NewDate(ano, mes - 1, dia)

gerarFeriadosMoveis(ano) ==
    LET pascoa == calcularPascoa(ano)
    IN  { MonthDay(pascoa - 48), MonthDay(pascoa - 47), MonthDay(pascoa - 2),
          MonthDay(pascoa + 60) }

\* the loop over the days of the window
ContarDias(days, ano, feriadosAnoCorrente, feriadosAnoAnterior) ==
    LET rest == { current \in days :
                    \/ WeekDayOf(current) = 0
                    \/ MonthDay(current) \in (IF CivilDate(current)[1] = ano
                                              THEN feriadosAnoCorrente
                                              ELSE feriadosAnoAnterior) }
    IN  [diasUteis |-> Cardinality({current \in days \ rest : WeekDayOf(current) # 6}),
         domingosEFeriados |-> Cardinality(rest),
         feriados |-> feriadosAnoCorrente]

\* the days from startDate to endDate that the loop goes through
DiasDaCompetencia(mes, ano, cycleStartDay) ==
    IF cycleStartDay <= 1
    THEN NewDate(ano, mes - 1, 1)..NewDate(ano, mes, 0)
    ELSE NewDate(ano, mes - 2, cycleStartDay + 1)..NewDate(ano, mes - 1, cycleStartDay)

\* mes is a numeral token: with a month that is not a number both dates are
\* invalid and the loop over the days is not entered
getDiasUteisEDomingos(mes, ano, cycleStartDay) ==
    ContarDias(
        IF ~IsFiniteTok(mes) THEN {} ELSE DiasDaCompetencia(mes.v, ano, cycleStartDay),
        ano,
        FERIADOS_FIXOS \cup gerarFeriadosMoveis(ano),
        FERIADOS_FIXOS \cup gerarFeriadosMoveis(ano - 1))

\* the days that the lines 1..31 of the card of a month stand for
CardLineDays(mes, ano, cycleStartDay) ==
    LET dateOf(day) == resolveWorkDateByCompetenciaDay(day, mes, ano, cycleStartDay)
    IN  { JulianDay(dateOf(day)[1], dateOf(day)[2], dateOf(day)[3]) :
            day \in { line \in 1..CardLines : isValid(dateOf(line)) } }

CompetenceArgs ==
    [fn : {"getDiasUteisEDomingos"}, mes : 1..12, ano : {WeekYear - 2, WeekYear},
     cycleStartDay : 1..CardLines]

InitCompetence == CallerIdle /\ fnArgs \in CompetenceArgs

\* the day count of a month and the dates of the card lines of the same month
CallCompetence ==
    /\ pc = "call"
    /\ fnArgs.fn = "getDiasUteisEDomingos"
    /\ fnValue' = [returned |-> TRUE,
                   counted |-> getDiasUteisEDomingos(
                                   Tok(fnArgs.mes), fnArgs.ano, fnArgs.cycleStartDay),
                   iterated |-> DiasDaCompetencia(fnArgs.mes, fnArgs.ano, fnArgs.cycleStartDay),
                   lines |-> CardLineDays(fnArgs.mes, fnArgs.ano, fnArgs.cycleStartDay)]
    /\ pc' = "returned"
    /\ UNCHANGED <<settings, entries, engineVars, firstCall, request, projected, fnArgs>>

SpecCompetence == InitCompetence /\ [][CallCompetence]_vars

(***************************************************************************)
(* calcularHoleriteCompleto: the settlement of a month.                    *)
(***************************************************************************)
INSS_FAIXAS_2026 ==
    << [limite |-> Money(1621, 0), aliquota |-> 75],
       [limite |-> Money(2902, 84), aliquota |-> 90],
       [limite |-> Money(4354, 27), aliquota |-> 120],
       [limite |-> Money(8475, 55), aliquota |-> 140] >>

tetoINSS == INSS_FAIXAS_2026[Len(INSS_FAIXAS_2026)].limite

valorDependente == Money(189, 59)

\* the loop over the brackets, from bracket i on
RECURSIVE InssFrom(_, _, _, _)
InssFrom(i, inss, restanteINSS, limiteAnterior) ==
    IF i > Len(INSS_FAIXAS_2026) \/ DecLeq(restanteINSS, DecZero) THEN inss
    ELSE LET faixa == INSS_FAIXAS_2026[i]
             amplitude == DecSub(faixa.limite, limiteAnterior)
             baseFaixa == DecMin(restanteINSS, amplitude)
         IN  InssFrom(i + 1, DecAdd(inss, DecRate(baseFaixa, faixa.aliquota)),
                      DecSub(restanteINSS, baseFaixa), faixa.limite)

\* variant: every bracket taxes the whole base up to its limit
inssProgressivo_WholeBase(baseINSS) ==
    IF DecLeq(baseINSS, INSS_FAIXAS_2026[1].limite) THEN DecRate(baseINSS, 75)
    ELSE IF DecLeq(baseINSS, INSS_FAIXAS_2026[2].limite) THEN DecRate(baseINSS, 90)
    ELSE IF DecLeq(baseINSS, INSS_FAIXAS_2026[3].limite) THEN DecRate(baseINSS, 120)
    ELSE DecRate(baseINSS, 140)

inssProgressivo(baseINSS) == InssFrom(1, DecZero, baseINSS, DecZero)

irTabelaTradicional(baseIR) ==
    LET tabela ==
            IF DecLeq(baseIR, Money(2428, 80)) THEN DecZero
            ELSE IF DecLeq(baseIR, Money(2826, 65))
                 THEN DecSub(DecRate(baseIR, 75), Money(182, 16))
            ELSE IF DecLeq(baseIR, Money(3751, 5))
                 THEN DecSub(DecRate(baseIR, 150), Money(394, 16))
            ELSE IF DecLeq(baseIR, Money(4664, 68))
                 THEN DecSub(DecRate(baseIR, 225), Money(675, 49))
            ELSE DecSub(DecRate(baseIR, 275), Money(908, 73))
    IN  IF DecLess(tabela, DecZero) THEN DecZero ELSE tabela

\* variant: the deduction of the dependents is added to the base
baseDeCalculoIR_Added(totalProventos, inss, dependentes) ==
    DecAdd(DecSub(totalProventos, inss), DecMulInt(valorDependente, dependentes))

baseDeCalculoIR(totalProventos, inss, dependentes) ==
    DecSub(DecSub(totalProventos, inss), DecMulInt(valorDependente, dependentes))

\* variant: the reducer is phased out from the first real above 5000 on
redutorMensal_NoPhaseOut(rendaMensal, irBaseTradicional) ==
    IF DecLeq(rendaMensal, Money(5000, 0)) THEN irBaseTradicional ELSE DecZero

\* 978.62 - 0.133145 * rendaMensal between 5000 and 7350
redutorMensal(rendaMensal, irBaseTradicional) ==
    IF DecLeq(rendaMensal, Money(5000, 0)) THEN irBaseTradicional
    ELSE IF DecLeq(rendaMensal, Money(7350, 0))
         THEN DecMax(DecZero,
                     DecSub(Money(978, 62),
                            DecDiv(DecDiv(DecMulInt(rendaMensal, 133145), 1000), 1000)))
    ELSE DecZero

irNoFechamento(irTotal, irRetidoNoAdiantamento) ==
    DecMax(DecZero, toFixed2(DecSub(irTotal, irRetidoNoAdiantamento)))

NoAdiantamentoPago == [given |-> FALSE, bruto |-> DecZero, irRetido |-> DecZero]

AdiantamentoPago(bruto, irRetido) == [given |-> TRUE, bruto |-> bruto, irRetido |-> irRetido]

\* 2) and 3): the hourly value, the four rates and the value of the overtime of
\* each tier; exact tells whether every quotient taken is a decimal of 8 places
HorasExtras(p) ==
    LET horas == IF p.horasMensais = 0 THEN 1 ELSE p.horasMensais
        valorHora == DecDiv(p.salarioBase, horas)
        Rate(perc) == DecDiv(DecMulInt(valorHora, 100 + perc), 100)
        Value(perc, minutes) == DecDiv(DecMulInt(Rate(perc), minutes), 60)
        ExactValue(perc, minutes) ==
            /\ DecDivides(DecMulInt(valorHora, 100 + perc), 100)
            /\ DecDivides(DecMulInt(Rate(perc), minutes), 60)
    IN  [valorHora |-> valorHora,
         rate50 |-> Rate(p.perc50), rate75 |-> Rate(p.perc50 + p.percNight),
         rate100 |-> Rate(p.perc100), rate125 |-> Rate(p.perc100 + p.percNight),
         v50 |-> Value(p.perc50, p.he50), v75 |-> Value(p.perc50 + p.percNight, p.he75),
         v100 |-> Value(p.perc100, p.he100),
         v125 |-> Value(p.perc100 + p.percNight, p.he125),
         exact |-> p.he50 + p.he75 + p.he100 + p.he125 > 0 =>
                      /\ DecDivides(p.salarioBase, horas)
                      /\ ExactValue(p.perc50, p.he50)
                      /\ ExactValue(p.perc50 + p.percNight, p.he75)
                      /\ ExactValue(p.perc100, p.he100)
                      /\ ExactValue(p.perc100 + p.percNight, p.he125)]

\* 1), 4) and 5): the DSR of the overtime and of the lateness, the gross
Proventos(p, extras, calendario) ==
    LET totalHorasExtras == DecAdd(DecAdd(extras.v50, extras.v75),
                                   DecAdd(extras.v100, extras.v125))
        DSR(value) == IF calendario.diasUteis > 0
                      THEN DecMulInt(DecDiv(value, calendario.diasUteis),
                                     calendario.domingosEFeriados)
                      ELSE DecZero
        totalProventos == DecAdd(DecAdd(p.salarioBase, totalHorasExtras),
                                 DSR(totalHorasExtras))
    IN  [diasUteis |-> calendario.diasUteis,
         domingosEFeriados |-> calendario.domingosEFeriados,
         feriados |-> calendario.feriados,
         totalHorasExtras |-> totalHorasExtras, valorDSR |-> DSR(totalHorasExtras),
         descontoDSRAtraso |-> DSR(p.atraso), totalProventos |-> totalProventos,
         exact |-> /\ extras.exact
                   /\ calendario.diasUteis > 0 =>
                         /\ DecDivides(totalHorasExtras, calendario.diasUteis)
                         /\ DecDivides(p.atraso, calendario.diasUteis)
                   /\ IsCents(totalProventos)
                   /\ DecDivides(DecMulInt(p.salarioBase, p.adiantamentoPercent), 100)]
        @@ extras

\* 6): INSS of the gross
Inss(proventos) ==
    LET baseINSS == DecMin(DecMax(DecZero, proventos.totalProventos), tetoINSS)
    IN  [baseINSS |-> baseINSS, inss |-> inssProgressivo(baseINSS)] @@ proventos

\* 7): the base of the income tax and the tax of the traditional table
Tabela(p, s) ==
    LET baseIR == baseDeCalculoIR(s.totalProventos, s.inss, p.dependentes)
    IN  [baseIR |-> baseIR, irBaseTradicional |-> irTabelaTradicional(baseIR),
         rendaMensal |-> s.totalProventos] @@ s

\* 7): the reducer and the tax due in the month
Redutor(s) ==
    LET redutorMensal2026 == redutorMensal(s.rendaMensal, s.irBaseTradicional)
    IN  [redutorMensal2026 |-> redutorMensal2026,
         irTotal |-> DecMax(DecZero, DecSub(s.irBaseTradicional, redutorMensal2026))] @@ s

\* 8): the advance and the tax withheld with it
Adiantamento(p, s) ==
    LET porPercentual == DecDiv(DecMulInt(p.salarioBase, p.adiantamentoPercent), 100)
        brutoInformado == p.adiantamentoPago.given /\ DecLess(DecZero, p.adiantamentoPago.bruto)
        adiantamentoBruto == IF brutoInformado THEN p.adiantamentoPago.bruto ELSE porPercentual
        irRetidoNoAdiantamento ==
            IF brutoInformado THEN p.adiantamentoPago.irRetido
            ELSE IF p.adiantamentoPago.given /\ DecLess(DecZero, p.adiantamentoPago.irRetido)
                 THEN p.adiantamentoPago.irRetido
            ELSE toFixed2(DecRate(porPercentual, 275))
    IN  [adiantamentoBruto |-> adiantamentoBruto,
         irRetidoNoAdiantamento |-> irRetidoNoAdiantamento,
         adiantamentoLiquido |-> toFixed2(DecSub(adiantamentoBruto, irRetidoNoAdiantamento))]
        @@ s

\* 9) and 10): the tax due at closing and the deductions before rounding
Descontos(p, s) ==
    LET irRetidoNoFechamento == irNoFechamento(s.irTotal, s.irRetidoNoAdiantamento)
    IN  [irRetidoNoFechamento |-> irRetidoNoFechamento,
         totalDescontosReal |->
            DecAdd(DecAdd(DecAdd(p.atraso, s.descontoDSRAtraso),
                          DecAdd(s.inss, irRetidoNoFechamento)), s.adiantamentoBruto),
         totalIRRetidoNoMes |-> toFixed2(DecAdd(s.irRetidoNoAdiantamento,
                                                irRetidoNoFechamento))] @@ s

\* 11) and 12): the rounded deductions, the rounding and the net
Liquido(s) ==
    LET totalDescontos == toFixed2(s.totalDescontosReal)
    IN  [totalDescontos |-> totalDescontos,
         arredondamento |-> toFixed2(DecSub(totalDescontos, s.totalDescontosReal)),
         liquido |-> toFixed2(DecSub(s.totalProventos, totalDescontos))] @@ s

\* 13): what is received in the month
Recebido(s) ==
    [liquidoTotalRecebido |-> toFixed2(DecAdd(s.liquido, s.adiantamentoLiquido))] @@ s

\* lines 143-259: the values of the settlement before they are rounded for the
\* report
Settlement(p) ==
    Recebido(Liquido(Descontos(p, Adiantamento(p, Redutor(Tabela(p, Inss(
        Proventos(p, HorasExtras(p),
                  getDiasUteisEDomingos(p.mes, p.ano, p.cycleStartDay)))))))))

\* lines 261-305: the returned record, every value of `valores` but the four
\* rates rounded to two places
Holerite(p, s) ==
    [mes |-> p.mes, ano |-> p.ano, diasUteis |-> s.diasUteis,
     domingosEFeriados |-> s.domingosEFeriados, feriadosConsiderados |-> s.feriados,
     valores |->
        [salarioBase |-> toFixed2(p.salarioBase), valorHora |-> toFixed2(s.valorHora),
         totalHorasExtras |-> toFixed2(s.totalHorasExtras),
         valorDSR |-> toFixed2(s.valorDSR),
         totalProventos |-> toFixed2(s.totalProventos),
         inss |-> toFixed2(s.inss), baseINSS |-> toFixed2(s.baseINSS),
         baseIR |-> toFixed2(s.baseIR),
         irBaseTradicional |-> toFixed2(s.irBaseTradicional),
         redutorMensal2026 |-> toFixed2(s.redutorMensal2026),
         rendaMensalConsiderada |-> toFixed2(s.rendaMensal),
         irTotal |-> toFixed2(s.irTotal),
         irRetidoNoAdiantamento |-> toFixed2(s.irRetidoNoAdiantamento),
         irRetidoNoFechamento |-> toFixed2(s.irRetidoNoFechamento),
         totalIRRetidoNoMes |-> toFixed2(s.totalIRRetidoNoMes),
         adiantamentoBruto |-> toFixed2(s.adiantamentoBruto),
         adiantamentoLiquido |-> toFixed2(s.adiantamentoLiquido),
         atraso |-> toFixed2(p.atraso),
         descontoDSRAtraso |-> toFixed2(s.descontoDSRAtraso),
         arredondamento |-> toFixed2(s.arredondamento),
         totalDescontos |-> toFixed2(s.totalDescontos),
         liquido |-> toFixed2(s.liquido),
         liquidoTotalRecebido |-> toFixed2(s.liquidoTotalRecebido),
         v50 |-> toFixed2(s.v50), v75 |-> toFixed2(s.v75),
         v100 |-> toFixed2(s.v100), v125 |-> toFixed2(s.v125),
         rate50 |-> s.rate50, rate75 |-> s.rate75,
         rate100 |-> s.rate100, rate125 |-> s.rate125]]

calcularHoleriteCompleto(p) == Holerite(p, Settlement(p))

(***************************************************************************)
(* The payslip view settles the month, and settles it again when the       *)
(* salary of the settings is raised or a dependent is added.               *)
(***************************************************************************)
PayrollSalaries ==
    { Money(-2200, 0), DecZero, Money(2200, 0), Money(3000, 0), Money(4400, 0),
      Money(5500, 0), Money(6600, 0), Money(8800, 0) }

\* minutes of overtime at 50%, 75%, 100% and 125%
PayrollOvertime == { <<0, 0, 0, 0>>, <<1320, 0, 0, 0>>, <<60, 120, 60, 60>> }

PayrollMonths ==
    { [mes |-> Tok(4), ano |-> WeekYear, cycleStartDay |-> 1],
      [mes |-> Tok(4), ano |-> WeekYear, cycleStartDay |-> DefaultCycleStartDay],
      [mes |-> NaNTok, ano |-> WeekYear, cycleStartDay |-> DefaultCycleStartDay] }

PayrollAdvances ==
    { NoAdiantamentoPago, AdiantamentoPago(DecZero, Money(150, 0)),
      AdiantamentoPago(Money(1000, 0), DecZero) }

PayrollCandidates ==
    { [salarioBase |-> salary, horasMensais |-> hours,
       he50 |-> overtime[1], he75 |-> overtime[2], he100 |-> overtime[3], he125 |-> overtime[4],
       perc50 |-> 50, perc100 |-> 100, percNight |-> 25,
       mes |-> month.mes, ano |-> month.ano, atraso |-> late, dependentes |-> dependents,
       adiantamentoPercent |-> 45, adiantamentoPago |-> advance,
       cycleStartDay |-> month.cycleStartDay] :
        salary \in PayrollSalaries, hours \in {0, 220}, overtime \in PayrollOvertime,
        month \in PayrollMonths, late \in {DecZero, Money(110, 0)},
        dependents \in {0, 2, 12}, advance \in PayrollAdvances }

InitPayroll ==
    /\ CallerIdle
    /\ fnArgs \in { [fn |-> "calcularHoleriteCompleto", p |-> p] : p \in PayrollCandidates }
    /\ Settlement(fnArgs.p).exact

\* the returned record, kept with the values it was rounded from
Settled(p, s) == [returned |-> TRUE, payroll |-> Holerite(p, s), real |-> s]

Settle(p) == Settled(p, Settlement(p))

CallPayroll ==
    /\ pc = "call"
    /\ fnArgs.fn = "calcularHoleriteCompleto"
    /\ fnValue' = Settle(fnArgs.p)
    /\ pc' = "returned"
    /\ UNCHANGED <<settings, entries, engineVars, firstCall, request, projected, fnArgs>>

Recompute(p) ==
    /\ pc = "returned"
    /\ fnArgs.fn = "calcularHoleriteCompleto"
    /\ firstCall' = [made |-> TRUE, p |-> fnArgs.p, real |-> fnValue.real,
                     payroll |-> fnValue.payroll]
    /\ fnArgs' = [fnArgs EXCEPT !.p = p]
    /\ fnValue' = Settle(p)
    /\ pc' = "recomputed"
    /\ UNCHANGED <<settings, entries, engineVars, request, projected>>

OneMoreDependent ==
    /\ fnArgs.fn = "calcularHoleriteCompleto"
    /\ Recompute([fnArgs.p EXCEPT !.dependentes = @ + 1])

RaiseSalary ==
    /\ fnArgs.fn = "calcularHoleriteCompleto"
    /\ \E salary \in PayrollSalaries :
          /\ DecLess(fnArgs.p.salarioBase, salary)
          /\ Settlement([fnArgs.p EXCEPT !.salarioBase = salary]).exact
          /\ Recompute([fnArgs.p EXCEPT !.salarioBase = salary])

NextPayroll == CallPayroll \/ OneMoreDependent \/ RaiseSalary

SpecPayroll == InitPayroll /\ [][NextPayroll]_vars

(***************************************************************************)
(* Runs of the engine with a salary: overtime-card days of three weeks of  *)
(* April 2026 (Saturday the 4th, Sundays the 5th and the 12th).            *)
(***************************************************************************)
MaxValueEntries == 2

ValueSettings ==
    { [BaseSettings EXCEPT !.weeklyLimit = w, !.baseSalary = Money(2200, 0),
                           !.monthlyHours = 220, !.percent50 = 50,
                           !.percent100 = 100, !.percentNight = 25] :
        w \in {0, 8} }

ValuePunches ==
    { [BlankPunches EXCEPT !.entry1 = HHMM(8, 0), !.exit1 = HHMM(8, 1)],
      [BlankPunches EXCEPT !.entry1 = HHMM(8, 0), !.exit1 = HHMM(8, 2)],
      [BlankPunches EXCEPT !.entry1 = HHMM(21, 58), !.exit1 = HHMM(22, 1)] }

ValueEntries ==
    { TimeEntry(d, TRUE, p) :
        d \in { <<2026, 4, 4>>, <<2026, 4, 5>>, <<2026, 4, 12>> }, p \in ValuePunches }

InitValue ==
    /\ settings \in ValueSettings
    /\ entries = <<>>
    /\ pc = "input"
    /\ EngineIdle
    /\ firstCall = NoCall
    /\ request = NoRequest
    /\ projected = NoProjection
    /\ fnArgs = NoArgs
    /\ fnValue = NoValue

AddValueEntry ==
    /\ pc = "input"
    /\ Len(entries) < MaxValueEntries
    /\ \E entry \in ValueEntries : entries' = Append(entries, entry)
    /\ UNCHANGED <<settings, pc, engineVars, callerVars>>

NextValue == AddValueEntry \/ Calculate \/ EngineStep

SpecValue == InitValue /\ [][NextValue]_vars

(***************************************************************************)
(* Properties of the classifier.                                           *)
(***************************************************************************)
Tiers(t) ==
    t.total50Minutes + t.total75Minutes + t.total100Minutes + t.total125Minutes
LowTiers(t) == t.total50Minutes + t.total75Minutes
HighTiers(t) == t.total100Minutes + t.total125Minutes
NightTiers(t) == t.total75Minutes + t.total125Minutes
DayTiers(t) == t.total50Minutes + t.total100Minutes

\* the step is one iteration of the classifier's minute loop
MinuteStep == pc = "minutes" /\ processed' = processed + 1
\* the step feeds one day to the rule chain
DayStep == pc = "days" /\ Len(dayLog') = Len(dayLog) + 1

GrandAfterDay(i) == IF i < Len(dayLog) THEN dayLog[i + 1].grandBefore ELSE grand
DayFinished(i) == i < Len(dayLog) \/ pc # "minutes"

\* C2 (conservation): every day fed to the classifier adds exactly its
\* overtimeMinutes to the buckets: to the four tiers on the overtime card (banked
\* hours untouched), to banked hours on the normal card (tiers untouched); in the
\* middle of a day exactly the minutes processed so far have been added; and after
\* any sequence of days the grand totals equal the sum of the days' overtimeMinutes.
C2_Conservation ==
    /\ \A i \in 1..Len(dayLog) :
          DayFinished(i) =>
             LET r == dayLog[i]
                 before == r.grandBefore
                 after == GrandAfterDay(i)
             IN  IF r.isOvertimeCardEntry
                 THEN /\ Tiers(after) - Tiers(before) = r.dayOvertimeMinutes
                      /\ after.totalBancoHoras = before.totalBancoHoras
                 ELSE /\ after.totalBancoHoras - before.totalBancoHoras
                            = r.dayOvertimeMinutes
                      /\ Tiers(after) = Tiers(before)
    /\ pc = "minutes" =>
          /\ Tiers(grand) - Tiers(dayLog[Len(dayLog)].grandBefore) = processed
          /\ processed < dayLog[Len(dayLog)].dayOvertimeMinutes
    /\ pc # "minutes" =>
          Tiers(grand) + grand.totalBancoHoras
             = SumSeq([i \in 1..Len(dayLog) |-> dayLog[i].dayOvertimeMinutes])

\* two days were fed and finished, one of each card, both with overtime
C2_Witness ==
    /\ pc = "done"
    /\ \E i, j \in 1..Len(dayLog) :
          /\ dayLog[i].isOvertimeCardEntry /\ dayLog[i].dayOvertimeMinutes > 1
          /\ ~dayLog[j].isOvertimeCardEntry /\ dayLog[j].dayOvertimeMinutes > 1

\* the weekly cap in whole minutes: the least accumulator value that is not
\* below weeklyLimit * 60
CapMinutes == (settings.weeklyLimit + 3) \div 4

\* C3 (weekly cap): with a cap C > 0 a non-Sunday overtime minute of the overtime
\* card goes to tier-50/75 exactly while fewer than C non-Sunday minutes of the
\* week were classified before it and to tier-100/125 from then on, so that
\* min(N, C) of the week's N non-Sunday minutes are in tier-50/75; with cap 0 no
\* non-Sunday minute goes to tier-100/125.
C3_Step ==
    LET acc == week.weekOvertimeAccumulator
        limit == settings.weeklyLimit
        low == LowTiers(week') = LowTiers(week) + 1 /\ HighTiers(week') = HighTiers(week)
        high == HighTiers(week') = HighTiers(week) + 1 /\ LowTiers(week') = LowTiers(week)
    IN  /\ (MinuteStep /\ ~ctx.isSunday) =>
              IF limit > 0 /\ 4 * acc >= limit THEN high ELSE low
        /\ limit > 0 =>
              LowTiers(week') = Min(week'.weekOvertimeAccumulator, CapMinutes)

C3_WeeklyCap == [][C3_Step]_vars

\* a week went past its cap: the cap's minutes are in tier-50/75, the rest above
C3_Witness ==
    /\ settings.weeklyLimit = 12
    /\ week.weekOvertimeAccumulator > CapMinutes + 1
    /\ LowTiers(week) = 3
    /\ HighTiers(week) = week.weekOvertimeAccumulator - 3
    /\ Len(dayLog) = 2

\* C4 (Sunday rule): a minute of an overtime-card Sunday goes to tier-125 when it
\* is a night minute and to tier-100 otherwise, whatever the accumulator and the
\* cap, and leaves everything else, the weekly accumulator included, as it was;
\* a minute of any other day raises the accumulator by exactly 1.
C4_Step ==
    MinuteStep =>
        LET position == (2 * ctx.dayEndMinutes - 2 * processed - 1) % 2880
            night == position >= 2 * nightCutoffMinutes \/ position < 600
            bucket == IF night THEN "total125Minutes" ELSE "total100Minutes"
        IN  IF ctx.isSunday
            THEN /\ week' = [week EXCEPT ![bucket] = @ + 1]
                 /\ grand' = [grand EXCEPT ![bucket] = @ + 1]
            ELSE /\ week'.weekOvertimeAccumulator = week.weekOvertimeAccumulator + 1
                 /\ Tiers(week') = Tiers(week) + 1

C4_SundayRule == [][C4_Step]_vars

\* a Sunday of the overtime card was classified under a cap, night minutes and
\* day minutes both, after a capped week, and the accumulator stayed at 0
C4_Witness ==
    /\ pc = "done"
    /\ settings.weeklyLimit > 0
    /\ Len(dayLog) = 2
    /\ ~dayLog[1].isSunday /\ dayLog[1].isOvertimeCardEntry
    /\ dayLog[1].dayOvertimeMinutes > CapMinutes
    /\ dayLog[2].isSunday /\ dayLog[2].isOvertimeCardEntry
    /\ week.total125Minutes > 0 /\ week.total100Minutes > 0
    /\ week.weekOvertimeAccumulator = 0

\* the clock-out of the last punch pair that has both of its sides
LastCompleteExit(entry) ==
    LET Both(a, b) == a.k = "hhmm" /\ b.k = "hhmm"
        Clock(c) == 60 * c.h + c.m
    IN  IF Both(entry.entryExtra, entry.exitExtra) THEN Clock(entry.exitExtra)
        ELSE IF Both(entry.entry2, entry.exit2) THEN Clock(entry.exit2)
        ELSE IF Both(entry.entry1, entry.exit1) THEN Clock(entry.exit1)
        ELSE 0

SixHourSunday ==
    TimeEntry(<<2026, 4, 5>>, TRUE,
              [BlankPunches EXCEPT !.entry1 = HHMM(8, 0), !.exit1 = HHMM(14, 0)])

\* C5 (night rule, backward walk): the k-th overtime minute of an overtime-card
\* day is taken at dayEnd - k - 0.5 on the 24-hour clock, dayEnd the clock-out of
\* the last complete punch pair, and is counted as a night minute (tier-75/125)
\* iff that position is at or after the night cutoff or before 05:00; a Sunday
\* punch 08:00-14:00 with cutoff 22:00 ends with 360 tier-100 and 0 tier-125.
C5_Step ==
    /\ MinuteStep =>
          LET dayEnd == LastCompleteExit(weekEntries[ei])
              position == (2 * dayEnd - 2 * processed - 1) % 2880
              night == position >= 2 * nightCutoffMinutes \/ position < 600
          IN  /\ NightTiers(week') = NightTiers(week) + (IF night THEN 1 ELSE 0)
              /\ DayTiers(week') = DayTiers(week) + (IF night THEN 0 ELSE 1)
    /\ (pc' = "done" /\ entries' = <<SixHourSunday>> /\ nightCutoffMinutes = 1320) =>
          /\ grand'.total100Minutes = 360
          /\ grand'.total125Minutes = 0
          /\ grand'.total50Minutes = 0 /\ grand'.total75Minutes = 0

C5_NightRule == [][C5_Step]_vars

\* the six-hour Sunday was classified to its end
C5_Witness ==
    /\ pc = "done"
    /\ entries = <<SixHourSunday>>
    /\ nightCutoffMinutes = 1320
    /\ grand.total100Minutes = 360

\* a day whose walk wrapped past midnight: a minute at 23:59.5 after one at 00:00.5
C5_WitnessWrap ==
    /\ pc = "minutes"
    /\ ctx.dayEndMinutes = 1
    /\ processed = 1

\* C6 (day overtime): overtimeMinutes is workedMinutes on a Sunday and
\* max(0, workedMinutes - expectedMinutes) on any other day; it is 0 whenever
\* workedMinutes is 0 and it is never negative.
C6_DayOvertime ==
    \A i \in 1..Len(dayLog) :
        LET r == dayLog[i]
            worked == r.dailyTotalMinutes
            expected == r.dailyJourneyMinutesEntry
        IN  /\ r.isSunday => r.dayOvertimeMinutes = worked
            /\ ~r.isSunday =>
                  r.dayOvertimeMinutes = (IF worked > expected THEN worked - expected ELSE 0)
            /\ worked = 0 => r.dayOvertimeMinutes = 0
            /\ r.dayOvertimeMinutes >= 0

\* a Sunday worked below its expected minutes and a weekday worked above them
C6_Witness ==
    \E i, j \in 1..Len(dayLog) :
        /\ dayLog[i].isSunday
        /\ dayLog[i].dailyTotalMinutes > 0
        /\ dayLog[i].dailyJourneyMinutesEntry > dayLog[i].dailyTotalMinutes
        /\ ~dayLog[j].isSunday
        /\ dayLog[j].dailyJourneyMinutesEntry > 0
        /\ dayLog[j].dailyTotalMinutes > dayLog[j].dailyJourneyMinutesEntry

\* C7 (normal card): a normal-card day never reaches the minute loop; its
\* overtimeMinutes, when positive, are added to banked hours of the week and of
\* the grand totals, Sundays included, and the four tiers and the weekly
\* accumulator stay as they were.
C7_Step ==
    (DayStep /\ ~ctx'.isOvertimeCardEntry) =>
        LET banked == IF ctx'.dayOvertimeMinutes > 0 THEN ctx'.dayOvertimeMinutes ELSE 0
        IN  /\ pc' # "minutes"
            /\ week' = [week EXCEPT !.totalBancoHoras = @ + banked]
            /\ grand' = [grand EXCEPT !.totalBancoHoras = @ + banked]

C7_NormalCard == [][C7_Step]_vars

\* a normal-card Sunday was banked in a week that already holds tier minutes
C7_Witness ==
    /\ Len(dayLog) = 2
    /\ ~dayLog[2].isOvertimeCardEntry
    /\ dayLog[2].isSunday
    /\ dayLog[2].dayOvertimeMinutes > 0
    /\ week.totalBancoHoras = dayLog[2].dayOvertimeMinutes
    /\ Tiers(week) > 0
    /\ pc = "done"

(***************************************************************************)
(* Properties of the custom week and of the day journey resolver.          *)
(***************************************************************************)
IsMonday(date) == getDay(date) = 1
IsSundayDate(date) == getDay(date) = 0

\* the day of the month of its first Sunday
FirstSunday(y, m) == CHOOSE d \in 1..7 : IsSundayDate(<<y, m, d>>)

\* no Monday after the earlier date and on or before the later one
NoMondayBetween(earlier, later) ==
    \A d \in (earlier[3] + 1)..later[3] : ~IsMonday(<<earlier[1], earlier[2], d>>)

\* C8 (custom week boundary): week 1 holds the days from the 1st through the
\* first Sunday, later weeks are Monday-to-Sunday blocks: two dates of a month
\* have the same week key iff no Monday lies after the earlier and on or before
\* the later, and a Sunday has the week key of the Saturday before it.
C8_WeekBoundary ==
    (fnValue.returned /\ fnArgs.fn = "customWeekKey") =>
        LET a == fnArgs.earlier
            b == fnArgs.later
        IN  /\ fnValue.earlier[3] = 1 <=> a[3] <= FirstSunday(a[1], a[2])
            /\ fnValue.earlier = fnValue.later <=> NoMondayBetween(a, b)
            /\ (IsSundayDate(b) /\ a[3] = b[3] - 1) => fnValue.earlier = fnValue.later
            /\ fnValue.earlierProjection = fnValue.earlier
            /\ fnValue.laterProjection = fnValue.later

\* what the code computes: week 1 ends on the first Saturday and the later weeks
\* are Sunday-to-Saturday blocks
NoSundayBetween(earlier, later) ==
    \A d \in (earlier[3] + 1)..later[3] : ~IsSundayDate(<<earlier[1], earlier[2], d>>)

C8_SundayFirst ==
    (fnValue.returned /\ fnArgs.fn = "customWeekKey") =>
        /\ fnValue.earlier = fnValue.later <=> NoSundayBetween(fnArgs.earlier, fnArgs.later)
        /\ fnValue.earlierProjection = fnValue.earlier
        /\ fnValue.laterProjection = fnValue.later

\* Math.round(hours * 60) of a journey given in 1/120 h
RoundedJourney(h) == CHOOSE base \in 0..1000 : 2 * base - 1 <= h /\ h < 2 * base + 1

\* the weekdays a compDays string names
CompSet(raw) ==
    LET tokens == IF raw = <<>> THEN DefaultCompDays ELSE raw
    IN  {tokens[i].v : i \in {j \in 1..Len(tokens) : tokens[j].fin}}

C9_Step ==
    /\ (pc' = "weeks" \/ pc \notin {"input", "done"}) => entries' = entries
    /\ (pc' = "done" /\ firstCall.made) =>
          /\ grand' = firstCall.grand
          /\ weeklySummaries' = firstCall.weeklySummaries

ReportedShortfall(kind) ==
    LET found == SelectSeq(projected.warnings, LAMBDA w : w.kind = kind)
    IN  IF found = <<>> THEN 0 ELSE found[1].minutes.h * 60 + found[1].minutes.m

\* C1 (round trip on the projection): classifying the projected overtime card
\* gives, tier by tier, the requested minutes when no shortfall warning was
\* emitted and the requested minutes less the reported shortfall, which are the
\* applied minutes of the summary, otherwise.
C1_RoundTrip ==
    (pc = "done" /\ projected.made) =>
        /\ grand.total50Minutes = request.he50Minutes - ReportedShortfall("missing50")
        /\ grand.total75Minutes = request.he75Minutes - ReportedShortfall("missing75")
        /\ grand.total100Minutes = request.he100Minutes - ReportedShortfall("missing100")
        /\ grand.total125Minutes = request.he125Minutes - ReportedShortfall("missing125")
        /\ grand.total50Minutes = projected.summary.he50MinutesApplied
        /\ grand.total75Minutes = projected.summary.he75MinutesApplied
        /\ grand.total100Minutes = projected.summary.he100MinutesApplied
        /\ grand.total125Minutes = projected.summary.he125MinutesApplied

\* what holds of the round trip: the summary's applied minutes are the requested
\* minutes less the reported shortfall, and the classifier finds their sum
C1_AppliedTotal ==
    (pc = "done" /\ projected.made) =>
        /\ projected.summary.he50MinutesApplied
              = request.he50Minutes - ReportedShortfall("missing50")
        /\ projected.summary.he75MinutesApplied
              = request.he75Minutes - ReportedShortfall("missing75")
        /\ projected.summary.he100MinutesApplied
              = request.he100Minutes - ReportedShortfall("missing100")
        /\ projected.summary.he125MinutesApplied
              = request.he125Minutes - ReportedShortfall("missing125")
        /\ Tiers(grand) = projected.summary.he50MinutesApplied
                          + projected.summary.he75MinutesApplied
                          + projected.summary.he100MinutesApplied
                          + projected.summary.he125MinutesApplied

(***************************************************************************)
(* Properties of the card lines.                                           *)
(***************************************************************************)
\* the calendar month before month m of year y, as <<year, month>>
PreviousMonth(y, m) == IF m = 1 THEN <<y - 1, 12>> ELSE <<y, m - 1>>

\* C11 (card-line date mapping): a line keeps its day number; it lies in the
\* reference month when cycleStartDay <= 1 or day <= cycleStartDay and in the
\* previous calendar month (December of the previous year before January) when
\* cycleStartDay > 1 and day > cycleStartDay, in the projection and in the
\* server's read-out alike.
C11_DateMapping ==
    (fnValue.returned /\ fnArgs.fn = "resolveWorkDateByCompetenciaDay") =>
        LET inReference == fnArgs.cycleStartDay <= 1 \/ fnArgs.day <= fnArgs.cycleStartDay
            month == IF inReference THEN <<fnArgs.referenceYear, fnArgs.referenceMonth>>
                     ELSE PreviousMonth(fnArgs.referenceYear, fnArgs.referenceMonth)
        IN  /\ fnValue.date = <<month[1], month[2], fnArgs.day>>
            /\ fnValue.serverDate = fnValue.date
            /\ (fnArgs.cycleStartDay = 15 /\ fnArgs.referenceYear = 2026
                /\ fnArgs.referenceMonth = 3) =>
                   /\ fnArgs.day = 20 => fnValue.date = <<2026, 2, 20>>
                   /\ fnArgs.day = 10 => fnValue.date = <<2026, 3, 10>>

\* line 20 of reference 01/2026 with cutoff 15 resolved to 2025-12-20
C11_Witness ==
    /\ fnValue.returned
    /\ fnArgs.fn = "resolveWorkDateByCompetenciaDay"
    /\ fnArgs.cycleStartDay = 15 /\ fnArgs.day = 20
    /\ fnArgs.referenceMonth = 1 /\ fnArgs.referenceYear = 2026
    /\ fnValue.date = <<2025, 12, 20>>

(***************************************************************************)
(* Properties of lateness and absence.                                     *)
(***************************************************************************)
\* the journey expected of a normal-card day
ExpectedMinutes(date) ==
    LET base == RoundedJourney(settings.dailyJourney)
        dow == getDay(date)
    IN  IF ~settings.saturdayCompensation THEN base
        ELSE IF dow \in CompSet(settings.compDays) THEN base + 60
        ELSE IF dow = 6 THEN 0
        ELSE base

\* the lateness rule for a day with the given worked and expected minutes
LatenessRule(workedMinutes, expectedMinutes) ==
    IF 0 < workedMinutes /\ workedMinutes < expectedMinutes
    THEN expectedMinutes - workedMinutes
    ELSE IF workedMinutes = 0 /\ expectedMinutes > 0 THEN expectedMinutes
    ELSE 0

\* the minutes the engine banked for the day of the given date
BankedOn(date) ==
    LET found == SelectSeq(dayLog, LAMBDA c :
                    c.date = date /\ ~c.isOvertimeCardEntry /\ c.dayOvertimeMinutes > 0)
    IN  IF found = <<>> THEN 0 ELSE found[1].dayOvertimeMinutes

AtrasoRecords == SelectSeq(fnValue.bancoHoras, LAMBDA r : r.type = "atraso")
ExtraRecords == SelectSeq(fnValue.bancoHoras, LAMBDA r : r.type = "extra")

C13_AnnotationExclusion ==
    (pc = "summarised") =>
        /\ \A i \in 1..Len(fnValue.summary) :
              fnValue.summary[i].entry.isDPAnnotation => fnValue.summary[i].minutes = 0
        /\ \A i \in 1..Len(fnValue.holerith) :
              fnValue.holerith[i].entry.isDPAnnotation => fnValue.holerith[i].minutes = 0
        /\ \A i \in 1..Len(entries) :
              (entries[i].isDPAnnotation /\ isValid(entries[i].date)) =>
                  \A j \in 1..Len(AtrasoRecords) : AtrasoRecords[j].date # entries[i].date
        /\ \A i \in 1..Len(effectiveEntries) : \A j \in 1..Len(dayLog) :
              (effectiveEntries[i].isDPAnnotation
               /\ dayLog[j].date = effectiveEntries[i].date) =>
                  dayLog[j].dailyTotalMinutes = sumEntryWorkedMinutes(effectiveEntries[i])

\* what holds of the annotation: the two views leave an annotated day out of the
\* lateness, and the engine takes its worked time as it is
C13_ViewsExclude ==
    (pc = "summarised") =>
        /\ \A i \in 1..Len(fnValue.summary) :
              fnValue.summary[i].entry.isDPAnnotation => fnValue.summary[i].minutes = 0
        /\ \A i \in 1..Len(fnValue.holerith) :
              fnValue.holerith[i].entry.isDPAnnotation => fnValue.holerith[i].minutes = 0
        /\ \A i \in 1..Len(effectiveEntries) : \A j \in 1..Len(dayLog) :
              (effectiveEntries[i].isDPAnnotation
               /\ dayLog[j].date = effectiveEntries[i].date) =>
                  dayLog[j].dailyTotalMinutes = sumEntryWorkedMinutes(effectiveEntries[i])

(***************************************************************************)
(* Properties of the 31 lines of a card.                                   *)
(***************************************************************************)
PunchFree(row) ==
    \A pair \in 1..3 : \A side \in 1..2 : periodsFromEntry(row)[pair][side] = EmptyClock

\* 31 rows, one per line in ascending order
HasAllLines(rows) ==
    /\ Len(rows) = 31
    /\ \A d \in 1..31 : rows[d].day = d

InvalidLinesBlank(rows) ==
    \A d \in 1..Len(rows) : ~isValid(rows[d].date) => PunchFree(rows[d])

\* C14 (31-line invariant): the normal and the overtime card of the projection,
\* and each card the server reads out, have exactly 31 rows, one per line 01..31
\* in ascending order, and a line whose resolved date is not a calendar date
\* carries no punches.
C14_ThirtyOneLines ==
    /\ projected.made =>
          /\ HasAllLines(projected.hours) /\ InvalidLinesBlank(projected.hours)
          /\ HasAllLines(projected.he) /\ InvalidLinesBlank(projected.he)
    /\ (fnValue.returned /\ fnArgs.fn = "card") =>
          /\ fnValue.hours # <<>> =>
                HasAllLines(fnValue.hours) /\ InvalidLinesBlank(fnValue.hours)
          /\ fnValue.he # <<>> =>
                HasAllLines(fnValue.he) /\ InvalidLinesBlank(fnValue.he)

\* what holds of the lines: every card that is built has its 31 lines, and the
\* projection leaves the lines without a calendar date blank
C14_LinesPresent ==
    /\ projected.made =>
          /\ HasAllLines(projected.hours) /\ InvalidLinesBlank(projected.hours)
          /\ HasAllLines(projected.he) /\ InvalidLinesBlank(projected.he)
    /\ (fnValue.returned /\ fnArgs.fn = "card") =>
          /\ fnValue.hours # <<>> => HasAllLines(fnValue.hours)
          /\ fnValue.he # <<>> => HasAllLines(fnValue.he)

(***************************************************************************)
(* Properties of the shortfall warnings of the projection.                 *)
(***************************************************************************)
HasWarning(kind) == \E i \in 1..Len(projected.warnings) : projected.warnings[i].kind = kind

TierReport(requested, applied, kind) ==
    /\ applied <= requested
    /\ applied + ReportedShortfall(kind) = requested
    /\ HasWarning(kind) <=> requested - applied > 0
    /\ Cardinality({i \in 1..Len(projected.warnings) : projected.warnings[i].kind = kind}) <= 1

\* C15 (shortfall reporting): for each tier the applied minutes of the projection
\* never exceed the requested minutes, applied plus reported shortfall is the
\* requested minutes, a warning for the tier is emitted exactly when minutes are
\* left unallocated, and the projection still returns both cards of 31 lines.
C15_ShortfallReporting ==
    projected.made =>
        /\ TierReport(request.he50Minutes, projected.summary.he50MinutesApplied, "missing50")
        /\ TierReport(request.he75Minutes, projected.summary.he75MinutesApplied, "missing75")
        /\ TierReport(request.he100Minutes, projected.summary.he100MinutesApplied, "missing100")
        /\ TierReport(request.he125Minutes, projected.summary.he125MinutesApplied, "missing125")
        /\ Len(projected.hours) = CardLines
        /\ Len(projected.he) = CardLines

\* a projection where one tier is placed in full and another is left short
C15_Witness ==
    /\ pc = "preview"
    /\ projected.made
    /\ request.he50Minutes > 0
    /\ projected.summary.he50MinutesApplied = request.he50Minutes
    /\ ReportedShortfall("missing75") > 0
    /\ ReportedShortfall("missing75") < request.he75Minutes + 1
    /\ Len(projected.he) = CardLines

(***************************************************************************)
(* Properties of the settlement.                                           *)
(***************************************************************************)
IsSettled == pc \in {"returned", "recomputed"} /\ fnArgs.fn = "calcularHoleriteCompleto"

Resettled == pc = "recomputed" /\ fnArgs.fn = "calcularHoleriteCompleto"

\* the part of base between two limits, taxed at a rate per mille
SpanTax(base, from, to, perMille) ==
    DecRate(DecMax(DecZero, DecSub(DecMin(base, to), from)), perMille)

MarginalInss(base) ==
    DecAdd(DecAdd(SpanTax(base, DecZero, Money(1621, 0), 75),
                  SpanTax(base, Money(1621, 0), Money(2902, 84), 90)),
           DecAdd(SpanTax(base, Money(2902, 84), Money(4354, 27), 120),
                  SpanTax(base, Money(4354, 27), Money(8475, 55), 140)))

InssOf(gross) == MarginalInss(DecMin(DecMax(DecZero, gross), Money(8475, 55)))

\* C16 (INSS): INSS is the sum, over the four brackets, of the rate of the
\* bracket on the span of min(max(0, gross), 8475.55) that lies in the bracket;
\* it is not negative, it is the same for every gross at or above 8475.55, and
\* of two settlements the one with the higher gross has no lower INSS.
C16_Inss ==
    IsSettled =>
        /\ fnValue.real.baseINSS
              = DecMin(DecMax(DecZero, fnValue.real.totalProventos), Money(8475, 55))
        /\ fnValue.real.inss = InssOf(fnValue.real.totalProventos)
        /\ DecLeq(DecZero, fnValue.real.inss)
        /\ DecLeq(Money(8475, 55), fnValue.real.totalProventos)
              => fnValue.real.inss = [r |-> 988, f |-> 9140000]
        /\ (Resettled /\ DecLeq(firstCall.real.totalProventos, fnValue.real.totalProventos))
              => DecLeq(firstCall.real.inss, fnValue.real.inss)

\* a gross in the third bracket is raised to a gross above the ceiling
C16_Witness ==
    /\ Resettled
    /\ DecLess(Money(2902, 84), firstCall.real.totalProventos)
    /\ DecLess(firstCall.real.totalProventos, Money(4354, 27))
    /\ DecLess(Money(8475, 55), fnValue.real.totalProventos)
    /\ DecLess(firstCall.real.inss, fnValue.real.inss)
    /\ fnValue.real.inss = [r |-> 988, f |-> 9140000]

\* the reducer of a gross and of its traditional-table tax
ReducerOf(gross, traditional) ==
    IF DecLeq(gross, Money(5000, 0)) THEN traditional
    ELSE IF DecLeq(gross, Money(7350, 0))
         THEN DecMax(DecZero, DecSub(Money(978, 62),
                                     DecDiv(DecDiv(DecMulInt(gross, 133145), 1000), 1000)))
    ELSE DecZero

\* C17 (IRRF): the total IRRF is max(0, traditional-table tax - reducer), the
\* reducer being the whole traditional tax for a gross up to 5000 (so that the
\* IRRF is 0 there), max(0, 978.62 - 0.133145 * gross) for a gross above 5000
\* and up to 7350, and 0 above; the total IRRF is never negative.
C17_Irrf ==
    IsSettled =>
        /\ fnValue.real.redutorMensal2026
              = ReducerOf(fnValue.real.totalProventos, fnValue.real.irBaseTradicional)
        /\ fnValue.real.irTotal
              = DecMax(DecZero, DecSub(fnValue.real.irBaseTradicional,
                                       fnValue.real.redutorMensal2026))
        /\ DecLeq(fnValue.real.totalProventos, Money(5000, 0)) => fnValue.real.irTotal = DecZero
        /\ DecLess(Money(7350, 0), fnValue.real.totalProventos)
              => fnValue.real.irTotal = fnValue.real.irBaseTradicional
        /\ DecLeq(DecZero, fnValue.real.irTotal)

\* a gross between 5000 and 7350 whose tax is reduced but not cancelled
C17_Witness ==
    /\ IsSettled
    /\ DecLess(Money(5000, 0), fnValue.real.totalProventos)
    /\ DecLeq(fnValue.real.totalProventos, Money(7350, 0))
    /\ DecLess(DecZero, fnValue.real.redutorMensal2026)
    /\ DecLess(DecZero, fnValue.real.irTotal)
    /\ DecLess(fnValue.real.irTotal, fnValue.real.irBaseTradicional)

OneDependentMore ==
    /\ Resettled
    /\ fnArgs.p = [firstCall.p EXCEPT !.dependentes = @ + 1]

\* C18 (tax monotonicity): with every other input unchanged, one dependent more
\* raises neither the total IRRF nor the IRRF due at closing.
C18_Dependents ==
    OneDependentMore =>
        /\ DecLeq(fnValue.real.irTotal, firstCall.real.irTotal)
        /\ DecLeq(fnValue.real.irRetidoNoFechamento, firstCall.real.irRetidoNoFechamento)
        /\ DecLeq(fnValue.payroll.valores.irTotal, firstCall.payroll.valores.irTotal)
        /\ DecLeq(fnValue.payroll.valores.irRetidoNoFechamento,
                  firstCall.payroll.valores.irRetidoNoFechamento)

\* one dependent more lowers the total IRRF and the IRRF due at closing
C18_Witness ==
    /\ OneDependentMore
    /\ DecLess(fnValue.real.irTotal, firstCall.real.irTotal)
    /\ DecLess(DecZero, fnValue.real.irRetidoNoFechamento)
    /\ DecLess(fnValue.real.irRetidoNoFechamento, firstCall.real.irRetidoNoFechamento)

\* the equations of the settlement, each value of the report being rounded to
\* two places where the code rounds it
RoundedEquations ==
    LET s == fnValue.real
    IN  /\ s.irRetidoNoFechamento
              = DecMax(DecZero, toFixed2(DecSub(s.irTotal, s.irRetidoNoAdiantamento)))
        /\ s.totalDescontosReal
              = DecAdd(DecAdd(DecAdd(fnArgs.p.atraso, s.descontoDSRAtraso),
                              DecAdd(s.inss, s.irRetidoNoFechamento)), s.adiantamentoBruto)
        /\ s.totalDescontos = toFixed2(s.totalDescontosReal)
        /\ s.liquido = toFixed2(DecSub(s.totalProventos, s.totalDescontos))
        /\ s.liquidoTotalRecebido
              = toFixed2(DecAdd(s.liquido, toFixed2(DecSub(s.adiantamentoBruto,
                                                          s.irRetidoNoAdiantamento))))

\* C19 (settlement equations): IR due at closing = max(0, total IRRF - IR
\* withheld at the advance); total deductions = lateness + lateness DSR + INSS +
\* closing IR + advance gross; final net = gross - total deductions; total
\* received = final net + (advance gross - advance IR); and the rounding delta
\* that is reported is the rounded total deductions minus the unrounded ones.
C19_SettlementEquations ==
    IsSettled =>
        /\ RoundedEquations
        /\ fnValue.payroll.valores.arredondamento
              = DecSub(fnValue.real.totalDescontos, fnValue.real.totalDescontosReal)

\* what holds of the settlement: the equations up to the rounding to two places,
\* the reported delta being the delta rounded to two places
C19_RoundedEquations ==
    IsSettled =>
        /\ RoundedEquations
        /\ fnValue.payroll.valores.arredondamento
              = toFixed2(DecSub(fnValue.real.totalDescontos, fnValue.real.totalDescontosReal))
        /\ fnValue.payroll.valores.totalDescontos = fnValue.real.totalDescontos
        /\ fnValue.payroll.valores.liquido = fnValue.real.liquido

MonetaryFields ==
    { "salarioBase", "valorHora", "totalHorasExtras", "valorDSR", "totalProventos", "inss",
      "baseINSS", "baseIR", "irBaseTradicional", "redutorMensal2026",
      "rendaMensalConsiderada", "irTotal", "irRetidoNoAdiantamento", "irRetidoNoFechamento",
      "totalIRRetidoNoMes", "adiantamentoBruto", "adiantamentoLiquido", "atraso",
      "descontoDSRAtraso", "totalDescontos", "liquido", "liquidoTotalRecebido",
      "v50", "v75", "v100", "v125" }

Guards ==
    /\ fnArgs.p.horasMensais = 0 => fnValue.real.valorHora = fnArgs.p.salarioBase
    /\ fnValue.payroll.diasUteis = 0
          => /\ fnValue.payroll.valores.valorDSR = DecZero
             /\ fnValue.payroll.valores.descontoDSRAtraso = DecZero

\* C20 (clamping): monthly hours of 0 count as 1 for the hourly rate, no
\* business day gives a DSR of 0, and every monetary field of the returned
\* settlement, the IR base, the advance net and the final net among them, is
\* at least 0 for any inputs.
C20_Clamping ==
    IsSettled =>
        /\ Guards
        /\ \A field \in MonetaryFields : DecLeq(DecZero, fnValue.payroll.valores[field])

\* what holds of the clamping: the two guards, and the fields the code floors
\* at zero are not negative
C20_Guarded ==
    IsSettled =>
        /\ Guards
        /\ \A field \in {"inss", "baseINSS", "irBaseTradicional", "redutorMensal2026",
                         "irTotal", "irRetidoNoFechamento"} :
              DecLeq(DecZero, fnValue.payroll.valores[field])

(***************************************************************************)
(* Properties of the money totals of the engine.                           *)
(***************************************************************************)
RECURSIVE DecSumSeq(_)
DecSumSeq(s) == IF s = <<>> THEN DecZero ELSE DecAdd(Head(s), DecSumSeq(Tail(s)))

WeeklyMinutes(field) == SumSeq([i \in 1..Len(weeklySummaries) |-> weeklySummaries[i][field]])

GrandMinutesAreWeeklySums ==
    \A field \in {"total50Minutes", "total75Minutes", "total100Minutes", "total125Minutes"} :
        grand[field] = WeeklyMinutes(field)

\* C21 (grand total converted once): when the engine returns, the grand minutes
\* of each tier are the sums of the weekly minutes, and the grand overtime value
\* is the grand minutes converted to currency a single time (sum over the tiers
\* of minutes / 60 * rate, rounded to 2 decimals), not the sum of the weekly
\* values that were each rounded.
C21_ConvertedOnce ==
    pc = "done" =>
        /\ GrandMinutesAreWeeklySums
        /\ OvertimeComputationResult.grandTotalValue = MinutesValue(grand, buildRates(settings))

\* what holds of the grand totals: the minutes are the sums of the weekly
\* minutes, and the value is the sum of the rounded weekly values
C21_SumOfWeekValues ==
    pc = "done" =>
        /\ GrandMinutesAreWeeklySums
        /\ OvertimeComputationResult.grandTotalValue =
              DecSumSeq([i \in 1..Len(weeklySummaries) |-> weeklySummaries[i].totalValue])

(***************************************************************************)
(* Properties of the clock arithmetic.                                     *)
(***************************************************************************)
ClockCalled == pc = "returned" /\ fnArgs.fn = "sumEntryWorkedMinutes"

\* a clock text is well formed when it matches /^\d{1,2}:\d{2}$/
WellFormed(clock) == clock.k = "hhmm"

\* what a punch pair is to contribute
PairRule(start, end) ==
    IF ~WellFormed(start) \/ ~WellFormed(end) THEN 0
    ELSE IF end.h * 60 + end.m < start.h * 60 + start.m
         THEN end.h * 60 + end.m - (start.h * 60 + start.m) + 1440
    ELSE end.h * 60 + end.m - (start.h * 60 + start.m)

\* C22 (clock leniency): timeToMinutes is 0 for an empty or malformed clock
\* text; in the worked minutes a punch pair with a side empty or malformed
\* contributes 0 (the missing side is not read as 00:00), a pair with
\* end < start contributes end - start + 1440, a pair with end = start 0.
C22_ClockLeniency ==
    ClockCalled =>
        /\ ~WellFormed(fnArgs.entry.entry1) => fnValue.startMinutes = 0
        /\ ~WellFormed(fnArgs.entry.exit1) => fnValue.endMinutes = 0
        /\ fnValue.worked - fnValue.workedRest
              = PairRule(fnArgs.entry.entry1, fnArgs.entry.exit1)
        /\ fnValue.legacy - fnValue.legacyRest
              = PairRule(fnArgs.entry.entry1, fnArgs.entry.exit1)

\* what holds of the clock arithmetic: timeToMinutes is 0 for a text that is
\* empty or has no colon, and timeMath's worked minutes follow the pair rule
C22_TimeMathLeniency ==
    ClockCalled =>
        /\ fnArgs.entry.entry1.k \in {"empty", "junk"} => fnValue.startMinutes = 0
        /\ fnArgs.entry.exit1.k \in {"empty", "junk"} => fnValue.endMinutes = 0
        /\ fnValue.worked - fnValue.workedRest
              = PairRule(fnArgs.entry.entry1, fnArgs.entry.exit1)

(***************************************************************************)
(* Properties of the lateness of the projected normal card.                *)
(***************************************************************************)
\* the line of the normal card as it is before the lateness is spread
ScheduledRow(day) ==
    NormalRow(day,
              resolveWorkDateByCompetenciaDay(
                  day, request.referenceMonth[2], request.referenceMonth[1],
                  IF settings.cycleStartDay = 0 THEN DefaultCycleStartDay
                  ELSE settings.cycleStartDay),
              settings)

FullWeekday(row) ==
    /\ isValid(row.date)
    /\ getDay(row.date) \in 1..5
    /\ row.entry2 # EmptyClock /\ row.exit2 # EmptyClock

Afternoon(row) == Max(0, timeToMinutes(row.exit2) - timeToMinutes(row.entry2))

AtrasoCutOf(day) ==
    timeToMinutes(ScheduledRow(day).exit2) - timeToMinutes(projected.hours[day].exit2)

AtrasoWarnings == SelectSeq(projected.warnings, LAMBDA w : w.kind = "atraso")

\* C23 (lateness distribution): the requested lateness is spread over the
\* weekday rows with a full schedule, in line order; the afternoon exit of such
\* a row moves earlier by at most 60 minutes and never before its afternoon
\* entry; the cuts add up to atrasoMinutesApplied <= requested; the spreading
\* stops once the request is exhausted; a warning with the remainder is given
\* exactly when atrasoMinutesApplied < requested.
C23_LatenessDistribution ==
    projected.made =>
        LET applied == projected.summary.atrasoMinutesApplied
            requested == request.atrasoMinutes
        IN  /\ \A day \in 1..CardLines :
                  /\ AtrasoCutOf(day) \in 0..60
                  /\ AtrasoCutOf(day) > 0 => FullWeekday(ScheduledRow(day))
                  /\ AtrasoCutOf(day) <= Afternoon(ScheduledRow(day))
                  /\ [projected.hours[day] EXCEPT !.exit2 = ScheduledRow(day).exit2,
                                                  !.totalHours = minutesToTime(0),
                                                  !.isDPAnnotation = "unset"]
                     = ScheduledRow(day)
            /\ \A earlier, later \in 1..CardLines :
                  (earlier < later /\ FullWeekday(ScheduledRow(earlier))
                      /\ (AtrasoCutOf(later) > 0 \/ applied < requested))
                  => AtrasoCutOf(earlier) = Min(60, Afternoon(ScheduledRow(earlier)))
            /\ SumSeq([day \in 1..CardLines |-> AtrasoCutOf(day)]) = applied
            /\ applied <= requested
            /\ applied < requested <=> AtrasoWarnings # <<>>
            /\ AtrasoWarnings # <<>>
                  => AtrasoWarnings = << [kind |-> "atraso",
                                          minutes |-> minutesToTime(requested - applied)] >>

\* a request of 61 minutes met by a cut of 60 and a cut of 1 in the next row
C23_Witness ==
    /\ projected.made
    /\ request.atrasoMinutes = 61
    /\ projected.summary.atrasoMinutesApplied = 61
    /\ \E first, second \in 1..CardLines :
          /\ first < second
          /\ AtrasoCutOf(first) = 60 /\ AtrasoCutOf(second) = 1

(***************************************************************************)
(* Properties of the allocation of the projected overtime card.            *)
(***************************************************************************)
Allocating == pc \in {"allocating", "allocated", "preview"}

\* the minutes placed in a day plan so far
PlacedMinutes(dayPlan) ==
    UNION { UNION { segment.start..(segment.end - 1) :
                      segment \in { dayPlan.slots[s].segments[i] :
                                      i \in 1..Len(dayPlan.slots[s].segments) } } :
            s \in 1..Len(dayPlan.slots) }

SundayWindows ==
    LET nightStart == Max(22 * 60, timeToMinutes(OrDefault(settings.nightCutoff, HHMM(22, 0))))
    IN  ((8 * 60)..(18 * 60 - 1)) \cup (nightStart..(nightStart + 240 - 1))

ShiftWindows(shiftStart, shiftEnd) ==
    ((shiftStart - 120)..(shiftStart - 1)) \cup (shiftEnd..(shiftEnd + 360 - 1))

WeekdayShiftWindows ==
    ShiftWindows(timeToMinutes(OrDefault(settings.workStart, HHMM(12, 0))),
                 timeToMinutes(OrDefault(settings.workEnd, HHMM(21, 0))))

SaturdayShiftWindows ==
    ShiftWindows(timeToMinutes(OrDefault(settings.saturdayWorkStart, HHMM(12, 0))),
                 timeToMinutes(OrDefault(settings.saturdayWorkEnd, HHMM(16, 0))))

\* the candidate windows of a day as the claim has them
CandidateWindows(dayOfWeek) ==
    IF dayOfWeek = 0 THEN SundayWindows
    ELSE IF dayOfWeek = 6
         THEN (IF settings.saturdayCompensation THEN {} ELSE SaturdayShiftWindows)
    ELSE WeekdayShiftWindows

\* C24 (candidate windows): every minute placed on the overtime card lies in a
\* candidate window of its day: on a Sunday 08:00-18:00 or the 4 hours from
\* max(22:00, nightCutoff); on another day the 2 hours before the shift or the
\* 6 hours after it; a Saturday under Saturday compensation has no window and
\* gets no minute.
C24_CandidateWindows ==
    Allocating =>
        \A d \in 1..Len(fnValue.dayPlans) :
            PlacedMinutes(fnValue.dayPlans[d]) \subseteq CandidateWindows(fnValue.dayPlans[d].dayOfWeek)

\* what holds of the windows: a Saturday under Saturday compensation has the
\* windows of a weekday, around the weekday shift
C24_WindowsOfTheDay ==
    Allocating =>
        \A d \in 1..Len(fnValue.dayPlans) :
            PlacedMinutes(fnValue.dayPlans[d])
                \subseteq (IF fnValue.dayPlans[d].dayOfWeek = 6 /\ settings.saturdayCompensation
                           THEN WeekdayShiftWindows
                           ELSE CandidateWindows(fnValue.dayPlans[d].dayOfWeek))

\* an allocation phase has just run
PhaseStep == pc = "allocating" /\ fnValue'.phase = fnValue.phase + 1

\* the minutes a day received in the phase
NewMinutes(d) == PlacedMinutes(fnValue'.dayPlans[d]) \ PlacedMinutes(fnValue.dayPlans[d])

\* the minutes the days of a week received in the phase
NewMinutesOfWeek(weekKey) ==
    SumSeq([d \in 1..Len(fnValue.dayPlans) |->
               IF fnValue.dayPlans[d].weekKey = weekKey /\ fnValue.dayPlans[d].dayOfWeek # 0
               THEN Cardinality(NewMinutes(d)) ELSE 0])

NewMinutesOfPhase ==
    SumSeq([d \in 1..Len(fnValue.dayPlans) |-> Cardinality(NewMinutes(d))])

WeeklyCapMinutes == Max(0, (settings.weeklyLimit + 2) \div 4)

NightClock(minute) ==
    \/ minute % 1440 >= timeToMinutes(OrDefault(settings.nightCutoff, HHMM(22, 0)))
    \/ minute % 1440 < 5 * 60

PlanWeeks == { fnValue.dayPlans[d].weekKey : d \in 1..Len(fnValue.dayPlans) }

\* what each phase is asked for, from what the Sunday phases placed
AskedOfPhase(phase) ==
    CASE phase = 1 -> request.he125Minutes
      [] phase = 2 -> request.he100Minutes
      [] phase = 3 -> request.he75Minutes
      [] phase = 4 -> request.he50Minutes
      [] phase = 5 -> request.he125Minutes - fnValue.applied[1]
      [] phase = 6 -> request.he100Minutes - fnValue.applied[2]

Classified == fnArgs.fn = "classifyMinuteRateType" /\ fnValue.returned

BucketOfRateType(rateType) ==
    CASE rateType = "50" -> "total50Minutes"
      [] rateType = "75" -> "total75Minutes"
      [] rateType = "100" -> "total100Minutes"
      [] rateType = "125" -> "total125Minutes"

\* C26 (same classification rule): for every weekday, minute of day,
\* accumulator, weekly cap and night cutoff, classifyMinuteRateType returns the
\* tier that classifyAndAccumulateRule gives to a minute at that clock position
\* with that accumulator.
C26_SameClassification ==
    Classified => BucketOfRateType(fnValue.rateType) = fnValue.bucket

\* a cap of weeklyLimit * 60 minutes that Math.round takes down to the minute
\* below (0 included)
CapRoundedDown == settings.weeklyLimit > 0 /\ settings.weeklyLimit % 4 = 1

\* the two rules agree on Sundays, for every cap that is a whole number of
\* minutes or is rounded up, and for every accumulator other than the rounded
\* cap; where they differ the allocator is a tier apart in the cap only
C26_SameUpToCapRounding ==
    Classified =>
        \/ BucketOfRateType(fnValue.rateType) = fnValue.bucket
        \/ /\ fnArgs.dayOfWeek # 0
           /\ CapRoundedDown
           /\ \/ fnArgs.weekAccumulator = AllocatorLimitMinutes(settings)
              \/ AllocatorLimitMinutes(settings) = 0
           /\ fnValue.bucket \in {"total50Minutes", "total75Minutes"}
                 <=> fnValue.rateType \in {"100", "125"}
           /\ fnValue.bucket \in {"total75Minutes", "total125Minutes"}
                 <=> fnValue.rateType \in {"75", "125"}

Normalized == fnArgs.fn = "normalizeOvernightEntries" /\ fnValue.returned

PunchPairs == { <<"entry1", "exit1">>, <<"entry2", "exit2">>, <<"entryExtra", "exitExtra">> }

PunchKeys == {"entry1", "exit1", "entry2", "exit2", "entryExtra", "exitExtra"}

\* the rows a and b, b right after a in date order, and the pair in which a has
\* a start without an end and b an end without a start
OvernightMoves ==
    LET es == fnArgs.entries
        ordered == SortedIndices(es)
    IN  { <<ordered[i], ordered[i + 1], pair>> : i \in 1..(Len(es) - 1), pair \in PunchPairs }
        \cap { mv \in (1..Len(es)) \X (1..Len(es)) \X PunchPairs :
                 SplitOvernight(es[mv[1]], es[mv[2]], mv[3][1], mv[3][2]) }

\* the well-formed punches of a list of rows, with their multiplicity
PunchBag(es) ==
    [clock \in { normalizeClock(es[r][key]) : r \in 1..Len(es), key \in PunchKeys }
               \ {EmptyClock} |->
        Cardinality({ <<r, key>> \in (1..Len(es)) \X PunchKeys :
                         normalizeClock(es[r][key]) = clock })]

\* every difference between the rows given and the rows returned is the exit
\* of an overnight move, and every overnight move is made
OnlyOvernightMoves ==
    LET before == fnArgs.entries
        after == fnValue.value
    IN  /\ Len(after) = Len(before)
        /\ fnValue.argument = before
        /\ PunchBag(after) = PunchBag(before)
        /\ \A mv \in OvernightMoves :
              /\ after[mv[1]][mv[3][2]] = before[mv[2]][mv[3][2]]
              /\ after[mv[2]][mv[3][2]] = EmptyClock
        /\ \A r \in 1..Len(before) :
              /\ \A key \in {"date", "isOvertimeCard", "entry1", "entry2", "entryExtra"} :
                    after[r][key] = before[r][key]
              /\ \A pair \in PunchPairs :
                    after[r][pair[2]] # before[r][pair[2]]
                        => \E mv \in OvernightMoves : mv[3] = pair /\ r \in {mv[1], mv[2]}

SameCard(a, b) == a.isOvertimeCard = b.isOvertimeCard

ConsecutiveDays(a, b) ==
    JulianDay(b.date[1], b.date[2], b.date[3]) = JulianDay(a.date[1], a.date[2], a.date[3]) + 1

\* C27 (overnight normalisation): normalizeOvernightEntries only moves an exit
\* punch to the row right before it in date order, in the same pair, when the
\* earlier row has a start without an end and the later row an end without a
\* start; it keeps the number of rows and the multiset of punches and leaves
\* its input alone; it never moves a punch between a normal-card row and an
\* overtime-card row, or between rows whose dates are not consecutive days.
C27_OvernightMoves ==
    Normalized =>
        /\ OnlyOvernightMoves
        /\ \A mv \in OvernightMoves :
              /\ SameCard(fnArgs.entries[mv[1]], fnArgs.entries[mv[2]])
              /\ ConsecutiveDays(fnArgs.entries[mv[1]], fnArgs.entries[mv[2]])

\* what holds: the moves are between rows adjacent in date order, whatever
\* their cards and however far apart their dates
C27_AdjacentRowsOnly == Normalized => OnlyOvernightMoves

\* an exit moved from an overtime-card row to a normal-card row three days earlier
C27_CrossCardMove ==
    /\ Normalized
    /\ \E mv \in OvernightMoves :
          /\ ~SameCard(fnArgs.entries[mv[1]], fnArgs.entries[mv[2]])
          /\ ~ConsecutiveDays(fnArgs.entries[mv[1]], fnArgs.entries[mv[2]])
          /\ fnValue.value[mv[1]][mv[3][2]] # fnArgs.entries[mv[1]][mv[3][2]]

\* the slot holds nothing, or one segment from its start up to its cursor
OneSegmentFromStart(slot) ==
    /\ Len(slot.segments) <= 1
    /\ slot.cursor \in slot.start..slot.end
    /\ IF slot.cursor = slot.start THEN slot.segments = <<>>
       ELSE slot.segments = << [start |-> slot.start, end |-> slot.cursor] >>

\* the segments are apart from one another, in increasing order
DisjointSegments(segments) ==
    \A i \in 1..Len(segments) :
        /\ segments[i].start < segments[i].end
        /\ i > 1 => segments[i - 1].end < segments[i].start

\* the punch pair entry..exit, read on the clock, spans the minute
PairCovers(entry, exit, minute) ==
    LET from == timeToMinutes(entry)
        to == timeToMinutes(exit)
        at == minute % MinutesPerDay
    IN  /\ entry.k = "hhmm" /\ exit.k = "hhmm"
        /\ IF from < to THEN at >= from /\ at < to ELSE at >= from \/ at < to

RowCovers(row, minute) ==
    \/ PairCovers(row.entry1, row.exit1, minute)
    \/ PairCovers(row.entry2, row.exit2, minute)
    \/ PairCovers(row.entryExtra, row.exitExtra, minute)

WrittenPairs(row) ==
    Cardinality({ pair \in PunchPairs : row[pair[1]].k # "empty" \/ row[pair[2]].k # "empty" })

\* C28 (segments per projected day): after any sequence of allocation phases
\* each candidate window holds at most one contiguous segment that starts at
\* the window's start, so a projected overtime day has at most two disjoint
\* punch segments; every allocated minute is covered by a written entry/exit
\* pair; the consolidation of more than three segments and its warning never
\* occur.
C28_SegmentsPerDay ==
    Allocating =>
        /\ \A d \in 1..Len(fnValue.dayPlans) :
              LET dayPlan == fnValue.dayPlans[d]
                  merged == Compact(<<>>, SortByStart(dayPlan.slots[1].segments
                                                      \o dayPlan.slots[2].segments))
              IN  /\ Len(dayPlan.slots) = 2
                  /\ \A s \in 1..2 : OneSegmentFromStart(dayPlan.slots[s])
                  /\ Len(merged) <= 2
                  /\ DisjointSegments(merged)
                  /\ CompactedSegments(dayPlan) = merged
                  /\ pc = "preview" =>
                        \A i \in 1..Len(projected.he) :
                            projected.he[i].day = dayPlan.row.day =>
                                /\ WrittenPairs(projected.he[i]) = Len(merged)
                                /\ \A minute \in PlacedMinutes(dayPlan) :
                                      RowCovers(projected.he[i], minute)
        /\ ExcessWarnings(fnValue.dayPlans) = <<>>
        /\ pc = "preview" =>
              \A w \in 1..Len(projected.warnings) : projected.warnings[w].kind # "excess"

\* a card written with a day of two punch segments, one of them grown by two
\* phases
C28_Witness ==
    /\ pc = "preview"
    /\ \E i \in 1..Len(projected.he) :
          /\ WrittenPairs(projected.he[i]) = 2
          /\ \E d \in 1..Len(fnValue.dayPlans) :
                /\ fnValue.dayPlans[d].row.day = projected.he[i].day
                /\ \E s \in 1..2 :
                      fnValue.dayPlans[d].slots[s].cursor >= fnValue.dayPlans[d].slots[s].start + 2

WindowCounted == fnArgs.fn = "getDiasUteisEDomingos" /\ fnValue.returned

IsHoliday(n) ==
    MonthDay(n) \in FERIADOS_FIXOS \cup gerarFeriadosMoveis(
                        IF CivilDate(n)[1] = fnArgs.ano THEN fnArgs.ano ELSE fnArgs.ano - 1)

\* every day of the window is a business day, a Sunday or holiday, or a
\* Saturday that is no holiday and is left out of both counts
CountedOnce ==
    LET days == fnValue.iterated
        resting == { n \in days : WeekDayOf(n) = 0 \/ IsHoliday(n) }
        saturdays == { n \in days \ resting : WeekDayOf(n) = 6 }
    IN  /\ fnValue.counted.domingosEFeriados = Cardinality(resting)
        /\ fnValue.counted.diasUteis = Cardinality(days \ (resting \cup saturdays))

\* C29 (card lines and competence window): for every reference month, year and
\* cycleStartDay in 1..31, the valid dates of the card lines 1..31 are the days
\* that getDiasUteisEDomingos goes through for the same month, year and
\* cycleStartDay, and each day of the window is counted in exactly one of:
\* business day, Sunday or holiday, Saturday that is no holiday.
C29_LinesAreTheWindow ==
    WindowCounted => fnValue.lines = fnValue.iterated /\ CountedOnce

\* the last day of the month before the reference month
LastOfPreviousMonth == NewDate(fnArgs.ano, fnArgs.mes - 1, 0)

\* the days of the window that a card line stands for are those of the card;
\* the two differ only where cycleStartDay + 1 is after the end of the
\* previous month or cycleStartDay after the end of the reference month
C29_AgreeWithinBothMonths ==
    WindowCounted =>
        /\ CountedOnce
        /\ fnValue.lines # fnValue.iterated =>
              /\ fnArgs.cycleStartDay > 1
              /\ \/ NewDate(fnArgs.ano, fnArgs.mes - 2, fnArgs.cycleStartDay + 1)
                        > LastOfPreviousMonth + 1
                 \/ NewDate(fnArgs.ano, fnArgs.mes - 1, fnArgs.cycleStartDay)
                        > NewDate(fnArgs.ano, fnArgs.mes, 0)
        /\ fnArgs.cycleStartDay <= 28 => fnValue.lines = fnValue.iterated

Parsing == fnArgs.fn = "parsePontoImage"

RequestsTo(provider) ==
    Cardinality({ i \in 1..Len(fnValue.requests) : fnValue.requests[i] = provider })

FallbackRequests ==
    { i \in 1..Len(fnValue.requests) : fnValue.requests[i] # ProviderOf(fnArgs) }

\* C30 (OCR retry and fallback): parseWithGemini makes at most 4 attempts; it
\* tries again, after a backoff of min(8000, 700 * 2^(attempt-1)) ms, only when
\* the failure is an 'unavailable' error and throws any other error at once;
\* after it fails with 'unavailable', parsePontoImage calls one fallback, once:
\* OpenAI if its key is configured, otherwise Codex, and fails if neither key
\* is configured; no fallback is tried when the primary provider is not Gemini
\* or the error of Gemini is not 'unavailable'.
C30_RetryAndFallback ==
    Parsing =>
        LET gemini == RequestsTo("gemini")
            failures == fnValue.failures
            unavailable == { i \in 1..Len(failures) : isGeminiUnavailableError(failures[i]) }
            exhausted == Len(failures) = maxAttempts /\ Cardinality(unavailable) = maxAttempts
        IN  /\ gemini <= maxAttempts
            /\ gemini = fnValue.attempt
            /\ Len(failures) \in {gemini - 1, gemini} \cap Nat
            \* every attempt but the last one failed with 'unavailable'
            /\ \A i \in 1..Len(failures) : i < gemini => i \in unavailable
            \* one backoff after each failure that is tried again
            /\ Len(fnValue.sleeps) = IF pc = "sleeping" THEN gemini ELSE Max(0, gemini - 1)
            /\ \A i \in 1..Len(fnValue.sleeps) :
                  fnValue.sleeps[i] = Min(8000, 700 * Pow2(i - 1))
            /\ pc = "sleeping" => Len(failures) = gemini /\ gemini < maxAttempts
            \* another error ends the call with that error
            /\ (Len(failures) > 0 /\ Len(failures) \notin unavailable)
                  => pc = "failed" /\ fnValue.error = failures[Len(failures)]
            \* the fallback
            /\ Cardinality(FallbackRequests) <= 1
            /\ ProviderOf(fnArgs) # "gemini" =>
                  /\ FallbackRequests = {} /\ gemini = 0
                  /\ Len(fnValue.requests) <= 1
            /\ ProviderOf(fnArgs) = "gemini" /\ fnArgs.geminiApiKey =>
                  /\ FallbackRequests # {} <=>
                        exhausted /\ (fnArgs.openaiApiKey \/ fnArgs.codexApiKey)
                  /\ FallbackRequests # {} =>
                        /\ FallbackRequests = {Len(fnValue.requests)}
                        /\ fnValue.requests[Len(fnValue.requests)]
                              = IF fnArgs.openaiApiKey THEN "openai" ELSE "codex"
                  /\ (exhausted /\ ~fnArgs.openaiApiKey /\ ~fnArgs.codexApiKey)
                        => pc = "failed" /\ fnValue.error = NoFallbackError

\* four attempts failed with 'unavailable', three backoffs were slept, and the
\* card came from OpenAI although the Codex key is configured too
C30_Witness ==
    /\ Parsing
    /\ pc = "returned"
    /\ fnArgs.openaiApiKey /\ fnArgs.codexApiKey
    /\ Len(fnValue.failures) = maxAttempts
    /\ fnValue.sleeps = <<700, 1400, 2800>>
    /\ fnValue.requests = <<"gemini", "gemini", "gemini", "gemini", "openai">>

====
